---- MODULE Spec2Model ----
(***************************************************************************)
(* Motiv: the request state machine (request.js), the command handlers     *)
(* and executeRequest (cli.js), and the agent loop with its tool executor  *)
(* and provider adapters (agent.js, providers/claude.js, gemini.js).       *)
(***************************************************************************)
EXTENDS Integers, Sequences, FiniteSets, TLC

\* ------------------------------------------------------------------------
\* Bounds of the exploration
\* ------------------------------------------------------------------------
MaxAttempts == 3
MaxSpecs == 2
MaxWrites == 5
VariedTurns == 1
MaxLen == 3
MaxRetry == 7
MaxRuns == 2
MaxIds == 5
MaxCalls == 2
MaxSameMs == 1
MaxStops == 1

\* ------------------------------------------------------------------------
\* Program constants
\* ------------------------------------------------------------------------
MAX_RETRIES == 2
MAX_TURNS == 50

Absent == "absent"
NoRequest == [id |-> 0]

Statuses ==
  {"ingested", "executing", "succeeded", "failed", "retrying", "needs_human", "applied"}

\* a target no table row lists
Targets == Statuses \cup {"bogus"}

VALID_TRANSITIONS_wide ==
  [s \in Statuses |->
     CASE s = "ingested"    -> {"executing", "succeeded", "failed"}
       [] s = "executing"   -> {"succeeded", "failed"}
       [] s = "succeeded"   -> {"applied", "executing"}
       [] s = "failed"      -> {"retrying", "needs_human"}
       [] s = "retrying"    -> {"executing"}
       [] s = "needs_human" -> {"executing"}
       [] s = "applied"     -> {"executing"}]

VALID_TRANSITIONS ==
  [s \in Statuses |->
     CASE s = "ingested"    -> {"executing"}
       [] s = "executing"   -> {"succeeded", "failed"}
       [] s = "succeeded"   -> {"applied", "executing"}
       [] s = "failed"      -> {"retrying", "needs_human"}
       [] s = "retrying"    -> {"executing"}
       [] s = "needs_human" -> {"executing"}
       [] s = "applied"     -> {"executing"}]

\* the request the model follows (REQ-0001), and an identifier no request has
RequestIds == {1}
ApiIds == RequestIds \cup {2}

Descriptions == {"Add input validation to /login"}
PrUrls == {"https://github.com/o/r/pull/1"}

\* arguments of recordAttempt: { status, commit, reason, summary }
AttemptInputs ==
  { [status |-> "succeeded", commit |-> "abc1234", reason |-> Absent, summary |-> "summary"],
    [status |-> "failed", commit |-> Absent, reason |-> "agent failed", summary |-> Absent],
    [status |-> "failed", commit |-> "abc1234", reason |-> "Tests failed: x", summary |-> Absent] }

VARIABLES
  requests,     \* ledger: request id -> request document (request.json)
  statusTrace,  \* history: request id -> the status of every request.json written
  requestLog,   \* history: request id -> the log entries written, oldest first
  logFiles,     \* ledger: request id -> the files of its log directory, by name
  sameMs,       \* how many of the coming log writes read the clock in the millisecond of the one before
  commits,      \* ledger: the commits of the ledger repository, oldest first
  head,         \* ledger: the tree of the last commit (documents and log entries)
  apiResult,    \* outcome of the last request.js call
  pc,           \* position of the running command ("idle" when none runs)
  cmd,          \* the running command: name, autonomy, force
  req,          \* executeRequest's in-memory request object
  result,       \* what runAgent handed to executeRequest
  commitHash,   \* executeRequest's commitHash
  remote,       \* history: what the run pushed to and opened on the remote
  procs,        \* command processes running side by side: each one's position and command
  env,          \* process.env: LLM_PROVIDER and whether the credential is set
  apc,          \* runAgent's position
  turns,        \* runAgent's turns
  messages,     \* runAgent's messages (the history, in the provider's shape)
  formattedRequest, \* runAgent's formattedRequest (the request of the current turn)
  parsed,       \* runAgent's parsed (the last parsed response)
  ti,           \* index of the tool call the for loop is at
  toolResults,  \* runAgent's toolResults
  outcome,      \* what runAgent returned or threw
  files,        \* the workspace files
  now,          \* Date.now()
  hist,         \* history: provider calls, responses, responses with tool calls, done executed
  execLog,      \* history: indices of the tool calls executed in the current turn
  unitCall,     \* a single call of executeTool or parseResponse: its name and input
  unitBefore,   \* the workspace files before that call
  unitResult,   \* what that call returned or threw
  caller,       \* who runs the transport: a test ("direct") or an adapter's call
  rpc,          \* fetchWithRetry's position
  maxRetries,   \* fetchWithRetry's maxRetries
  attemptNo,    \* fetchWithRetry's attempt
  lastResponse, \* fetchWithRetry's lastResponse
  delayMs,      \* the delay of the sleep in progress
  retryOut,     \* what fetchWithRetry returned or threw
  callOut,      \* what the adapter's call returned or threw
  rhist         \* history: fetches, sleeps begun and finished, retryable responses

ledgerVars == <<requests, statusTrace, requestLog, logFiles, sameMs, commits, head, apiResult>>
cliVars == <<pc, cmd, req, result, commitHash, remote, procs>>
agentVars == <<env, apc, turns, messages, formattedRequest, parsed, ti, toolResults, outcome, files, now,
               hist, execLog>>

toolVars == <<unitCall, unitBefore, unitResult>>
retryVars == <<caller, rpc, maxRetries, attemptNo, lastResponse, delayMs, retryOut, callOut,
               rhist>>
unitVars == <<toolVars, retryVars>>

NoResult == [op |-> "none", id |-> 0, target |-> "-", from |-> "-", ok |-> TRUE, error |-> "none"]
NoOutcome == [kind |-> "none"]
\* nothing pushed, no pull request opened, no auto-merge requested
NoRemote == [pushed |-> FALSE, force |-> FALSE, branch |-> [app |-> "-", id |-> 0],
             pr |-> "none", autoMerge |-> FALSE]
NoCmd == [name |-> "none", id |-> 0, autonomy |-> "-", force |-> FALSE, exit |-> 0]

\* the processes that may run commands side by side, none of them started
Procs == {1, 2}
NoProc == [pc |-> "idle", name |-> "none", id |-> 0, description |-> "-", exit |-> 0]
NoProcs == [p \in Procs |-> NoProc]

\* ------------------------------------------------------------------------
\* ledger.js
\* ------------------------------------------------------------------------
Max(S) == CHOOSE m \in S : \A x \in S : x <= m

RECURSIVE Digits(_)
\* String(n): the decimal digits of n
Digits(n) == IF n < 10 THEN <<n>> ELSE Append(Digits(n \div 10), n % 10)

\* `REQ-${String(n).padStart(4, "0")}`: the digits after the prefix REQ-
requestIdOf(n) ==
  LET digits == Digits(n) IN
    IF Len(digits) >= 4 THEN digits
    ELSE [k \in 1..(4 - Len(digits)) |-> 0] \o digits

RECURSIVE parseInt(_)
\* parseInt(r.id.replace("REQ-", ""), 10)
parseInt(digits) ==
  IF digits = << >> THEN 0
  ELSE 10 * parseInt(SubSeq(digits, 1, Len(digits) - 1)) + digits[Len(digits)]

\* nextRequestId, were it to fill the first free suffix
nextRequestId_off ==
  LET nums == {parseInt(requestIdOf(i)) : i \in DOMAIN requests} IN
    CHOOSE n \in 1..(Cardinality(nums) + 1) :
      n \notin nums /\ \A m \in 1..(n - 1) : m \in nums

\* a request of the model is keyed by the number n whose document carries
\* the id requestIdOf(n); the next id is REQ-0001 when no request exists,
\* otherwise the maximum suffix plus one
nextRequestId ==
  LET nums == {parseInt(requestIdOf(i)) : i \in DOMAIN requests} IN
    IF nums = {} THEN 1 ELSE Max(nums) + 1

readRequest(id) == IF id \in DOMAIN requests THEN requests[id] ELSE NoRequest

writeRequest(id, data) ==
  /\ requests' = [i \in DOMAIN requests \cup {id} |->
                    IF i = id THEN data ELSE requests[i]]
  /\ statusTrace' = [i \in DOMAIN requests \cup {id} |->
                    IF i = id
                      THEN Append(IF id \in DOMAIN statusTrace THEN statusTrace[id] ELSE <<>>,
                                  data.status)
                      ELSE statusTrace[i]]

\* the files of request id's log directory, oldest first: a file is named by
\* the millisecond at which it was written, so the names are in time order
LogDir(dirs, id) == IF id \in DOMAIN dirs THEN dirs[id] ELSE << >>

\* writeJsonFile(join(logDir, `${timestamp}.json`), entry): a write in a
\* later millisecond adds a file, a write in the millisecond of the newest
\* file writes that file again
writeRequestLog(id, entry) ==
  LET dir == LogDir(logFiles, id)
      sameName == sameMs > 0 /\ Len(dir) > 0
  IN /\ requestLog' = [i \in DOMAIN requestLog \cup {id} |->
                         IF i = id
                           THEN Append(IF id \in DOMAIN requestLog THEN requestLog[id] ELSE << >>,
                                       entry)
                           ELSE requestLog[i]]
     /\ \E again \in (IF sameName THEN {TRUE, FALSE} ELSE {FALSE}) :
          /\ logFiles' = [i \in DOMAIN logFiles \cup {id} |->
                            IF i # id THEN logFiles[i]
                            ELSE IF again THEN [dir EXCEPT ![Len(dir)] = entry]
                            ELSE Append(dir, entry)]
          /\ sameMs' = IF again THEN sameMs - 1 ELSE sameMs

\* commitLedger, were it to commit whether or not anything changed
commitLedger_off(message) ==
  /\ head' = [requests |-> requests', log |-> logFiles']
  /\ commits' = Append(commits, message)

\* git add ., git status --porcelain, and git commit unless nothing changed;
\* called once the files are written (requests' and logFiles')
commitLedger(message) ==
  LET tree == [requests |-> requests', log |-> logFiles'] IN
    /\ head' = tree
    /\ commits' = IF tree = head THEN commits ELSE Append(commits, message)

\* ------------------------------------------------------------------------
\* request.js
\* ------------------------------------------------------------------------
Fail(op, id, target, from, error) ==
  /\ apiResult' = [op |-> op, id |-> id, target |-> target, from |-> from,
                   ok |-> FALSE, error |-> error]
  /\ UNCHANGED <<requests, statusTrace, requestLog, logFiles, sameMs, commits, head>>

Ok(op, id, target, from) ==
  apiResult' = [op |-> op, id |-> id, target |-> target, from |-> from,
                ok |-> TRUE, error |-> "none"]

newRequest(id, description) ==
  [id |-> id,
   description |-> description,
   spec |-> << [version |-> 1, description |-> description] >>,
   attempts |-> << >>,
   status |-> "ingested",
   branch |-> [app |-> "motiv", id |-> id],
   pr_url |-> Absent]

createRequest(description) ==
  LET id == nextRequestId IN
    /\ writeRequest(id, newRequest(id, description))
    /\ writeRequestLog(id, [event |-> "created"])
    /\ commitLedger([op |-> "Ingest request", id |-> id])
    /\ Ok("createRequest", id, "ingested", "-")

\* the message of the Error a rejected transitionRequest throws:
\* `Request ${id} not found` or
\* `Invalid transition: ${request.status} -> ${newStatus} for ${id}`
transitionError(r) ==
  IF r.error = "not found"
    THEN [text |-> "Request not found", id |-> r.id]
    ELSE [text |-> "Invalid transition", from |-> r.from, to |-> r.target, id |-> r.id]

\* transitionRequest, were it to write before it validates the pair
transitionRequest_off(id, newStatus) ==
  LET request == readRequest(id) IN
    IF request = NoRequest
      THEN Fail("transitionRequest", id, newStatus, "-", "not found")
      ELSE /\ writeRequest(id, [request EXCEPT !.status = newStatus])
           /\ writeRequestLog(id, [event |-> "status_changed", from |-> newStatus,
                                   to |-> newStatus])
           /\ commitLedger([op |-> "status", id |-> id, from |-> newStatus,
                            to |-> newStatus])
           /\ IF newStatus \notin VALID_TRANSITIONS[request.status]
                THEN apiResult' = [op |-> "transitionRequest", id |-> id, target |-> newStatus,
                                   from |-> request.status, ok |-> FALSE,
                                   error |-> "Invalid transition"]
                ELSE Ok("transitionRequest", id, newStatus, request.status)

transitionRequest(id, newStatus) ==
  LET request == readRequest(id) IN
    IF request = NoRequest
      THEN Fail("transitionRequest", id, newStatus, "-", "not found")
      ELSE IF newStatus \notin VALID_TRANSITIONS[request.status]
        THEN Fail("transitionRequest", id, newStatus, request.status, "Invalid transition")
        ELSE /\ writeRequest(id, [request EXCEPT !.status = newStatus])
             \* request.status has been assigned by now: from is the new status
             /\ writeRequestLog(id, [event |-> "status_changed", from |-> newStatus,
                                     to |-> newStatus])
             /\ commitLedger([op |-> "status", id |-> id, from |-> newStatus,
                              to |-> newStatus])
             /\ Ok("transitionRequest", id, newStatus, request.status)

failedCount(attempts) ==
  Cardinality({k \in 1..Len(attempts) : attempts[k].status = "failed"})

\* the status recordAttempt derives from the attempt's outcome
attemptStatus_off(prior, status, attempts) ==
  IF status = "succeeded" THEN "succeeded"
  ELSE IF status = "failed"
    THEN IF failedCount(attempts) > MAX_RETRIES THEN "needs_human" ELSE "failed"
    ELSE prior

attemptStatus(prior, status, attempts) ==
  IF status = "succeeded" THEN "succeeded"
  ELSE IF status = "failed"
    THEN IF failedCount(attempts) >= MAX_RETRIES THEN "needs_human" ELSE "failed"
    ELSE prior

\* the document recordAttempt writes, were the status left as it was
attemptDocument_off(request, a) ==
  LET attemptId == Len(request.attempts) + 1
      specVersion == request.spec[Len(request.spec)].version
      attempt == [id |-> attemptId, spec_version |-> specVersion,
                  status |-> a.status, commit |-> a.commit,
                  reason |-> a.reason, summary |-> a.summary]
  IN [request EXCEPT !.attempts = Append(request.attempts, attempt)]

\* the document recordAttempt writes: the attempt is pushed and the status
\* derived before the single writeRequest
attemptDocument(request, a) ==
  LET attemptId == Len(request.attempts) + 1
      specVersion == request.spec[Len(request.spec)].version
      attempt == [id |-> attemptId, spec_version |-> specVersion,
                  status |-> a.status, commit |-> a.commit,
                  reason |-> a.reason, summary |-> a.summary]
      attempts == Append(request.attempts, attempt)
  IN [request EXCEPT
        !.attempts = attempts,
        !.status = attemptStatus(request.status, a.status, attempts)]

recordAttempt(id, a) ==
  LET request == readRequest(id) IN
    IF request = NoRequest
      THEN Fail("recordAttempt", id, a.status, "-", "not found")
      ELSE
        LET attemptId == Len(request.attempts) + 1
        IN /\ writeRequest(id, attemptDocument(request, a))
           /\ writeRequestLog(id, [event |-> "attempt", status |-> a.status,
                                   attempt_id |-> attemptId])
           /\ commitLedger([op |-> "attempt", id |-> id, attempt_id |-> attemptId,
                            status |-> a.status])
           /\ Ok("recordAttempt", id, a.status, request.status)

\* markApplied, were it to start the attempt history afresh
markApplied_off(id, prUrl) ==
  LET request == readRequest(id) IN
    IF request = NoRequest
      THEN Fail("markApplied", id, "applied", "-", "not found")
      ELSE /\ writeRequest(id, [request EXCEPT !.status = "applied", !.pr_url = prUrl,
                                               !.attempts = << >>])
           /\ writeRequestLog(id, [event |-> "applied", pr_url |-> prUrl])
           /\ commitLedger([op |-> "applied", id |-> id, pr_url |-> prUrl])
           /\ Ok("markApplied", id, "applied", request.status)

markApplied(id, prUrl) ==
  LET request == readRequest(id) IN
    IF request = NoRequest
      THEN Fail("markApplied", id, "applied", "-", "not found")
      ELSE /\ writeRequest(id, [request EXCEPT !.status = "applied", !.pr_url = prUrl])
           /\ writeRequestLog(id, [event |-> "applied", pr_url |-> prUrl])
           /\ commitLedger([op |-> "applied", id |-> id, pr_url |-> prUrl])
           /\ Ok("markApplied", id, "applied", request.status)

\* canAmend, were a failed request amendable too
canAmend_off(request) == request.status \in {"succeeded", "applied", "failed"}

canAmend(request) == request.status = "succeeded" \/ request.status = "applied"

\* canRetry, were force to lift every restriction
canRetry_off(request, force) ==
  IF force THEN TRUE
  ELSE request.status = "failed" \/ request.status = "needs_human"

canRetry(request, force) ==
  IF force THEN request.status # "executing"
  ELSE request.status = "failed" \/ request.status = "needs_human"

\* the spec after an amendment, were the new entry to take the last one's place
amendedSpec_off(spec, description) ==
  [spec EXCEPT ![Len(spec)] = [version |-> Len(spec) + 1, description |-> description]]

\* request.spec.push({ version: request.spec.length + 1, ..., description })
amendedSpec(spec, description) ==
  Append(spec, [version |-> Len(spec) + 1, description |-> description])

amendRequest(id, description) ==
  LET request == readRequest(id) IN
    IF request = NoRequest
      THEN Fail("amendRequest", id, "executing", "-", "not found")
      ELSE IF ~canAmend(request)
        THEN Fail("amendRequest", id, "executing", request.status, "cannot be amended")
        ELSE
          LET nextVersion == Len(request.spec) + 1 IN
            /\ writeRequest(id, [request EXCEPT
                 !.spec = amendedSpec(request.spec, description),
                 !.status = "executing"])
            /\ writeRequestLog(id, [event |-> "amended", from |-> request.status,
                                    to |-> "executing", version |-> nextVersion])
            /\ commitLedger([op |-> "Amend", id |-> id, version |-> nextVersion])
            /\ Ok("amendRequest", id, "executing", request.status)

\* ------------------------------------------------------------------------
\* The request API called directly, in any order
\* ------------------------------------------------------------------------
Writes == IF DOMAIN statusTrace = {} THEN 0
          ELSE Max({Len(statusTrace[i]) : i \in DOMAIN statusTrace})

Attempts(id) == IF id \in DOMAIN requests THEN Len(requests[id].attempts) ELSE 0
Specs(id) == IF id \in DOMAIN requests THEN Len(requests[id].spec) ELSE 0

ApiCreate ==
  /\ nextRequestId \in RequestIds
  /\ \E d \in Descriptions : createRequest(d)
  /\ UNCHANGED <<cliVars, agentVars, unitVars>>

ApiTransition ==
  /\ Writes < MaxWrites
  /\ \E id \in ApiIds, t \in Targets : transitionRequest(id, t)
  /\ UNCHANGED <<cliVars, agentVars, unitVars>>

ApiRecordAttempt ==
  /\ Writes < MaxWrites
  /\ \E id \in ApiIds, a \in AttemptInputs :
       /\ Attempts(id) < MaxAttempts
       /\ recordAttempt(id, a)
  /\ UNCHANGED <<cliVars, agentVars, unitVars>>

ApiMarkApplied ==
  /\ Writes < MaxWrites
  /\ \E id \in ApiIds, u \in PrUrls : markApplied(id, u)
  /\ UNCHANGED <<cliVars, agentVars, unitVars>>

\* commitLedger called on its own, over an unchanged tree
ApiCommit ==
  /\ UNCHANGED <<requests, statusTrace, requestLog, logFiles, sameMs>>
  /\ commitLedger([op |-> "Register project"])
  /\ Ok("commitLedger", 0, "-", "-")
  /\ UNCHANGED <<cliVars, agentVars, unitVars>>

ApiAmend ==
  /\ Writes < MaxWrites
  /\ \E id \in ApiIds, d \in Descriptions :
       /\ Specs(id) < MaxSpecs
       /\ amendRequest(id, d)
  /\ UNCHANGED <<cliVars, agentVars, unitVars>>

\* ------------------------------------------------------------------------
\* config.js
\* ------------------------------------------------------------------------
AUTONOMY_LEVELS == {"ingest_only", "execute_local", "draft_pr", "full"}

\* the effective autonomy of a command: flag, project setting or default;
\* "bogus" is a value validateAutonomy rejects
AutonomyInputs == AUTONOMY_LEVELS \cup {"bogus"}

validateAutonomy(level) == level \in AUTONOMY_LEVELS

\* ------------------------------------------------------------------------
\* agent.js as executeRequest sees it: the values runAgent returns, or the
\* error it throws
\* ------------------------------------------------------------------------
AgentSuccesses ==
  { [kind |-> "return", success |-> TRUE, title |-> <<"Add validation">>,
     summary |-> <<"Validated", "input">>, error |-> << >>],
    [kind |-> "return", success |-> TRUE, title |-> << >>,
     summary |-> <<"Changes implemented">>, error |-> << >>] }

AgentFailures ==
  { [kind |-> "return", success |-> FALSE, title |-> << >>, summary |-> << >>,
     error |-> <<"Agent exceeded maximum turns (50)">>] }

AgentErrors == {<<"Claude API error (500)">>, <<"Gemini returned no candidates">>}

\* ------------------------------------------------------------------------
\* cli.js: cmdSubmit, cmdRetry, cmdAmend
\* ------------------------------------------------------------------------
Exit(name, id, autonomy, force, code) ==
  /\ pc' = "idle"
  /\ cmd' = [name |-> name, id |-> id, autonomy |-> autonomy, force |-> force, exit |-> code]
  /\ req' = NoRequest
  /\ result' = NoOutcome
  /\ commitHash' = Absent

Execute(name, id, autonomy, force, request) ==
  /\ pc' = "prepare"
  /\ cmd' = [name |-> name, id |-> id, autonomy |-> autonomy, force |-> force, exit |-> -1]
  /\ req' = request
  /\ result' = NoOutcome
  /\ commitHash' = Absent

\* the autonomy test, were no level to skip the execution
skipsExecution_off(autonomy) == FALSE

\* if (autonomy === "ingest_only") return, in each of the three commands
skipsExecution(autonomy) == autonomy = "ingest_only"

cmdSubmit ==
  /\ UNCHANGED <<agentVars, unitVars, procs>>
  /\ pc = "idle"
  /\ remote' = NoRemote
  /\ nextRequestId \in RequestIds
  /\ \E autonomy \in AutonomyInputs, d \in Descriptions :
       LET id == nextRequestId IN
       IF ~validateAutonomy(autonomy)
         THEN /\ Exit("submit", 0, autonomy, FALSE, 1)
              /\ UNCHANGED ledgerVars
         ELSE /\ createRequest(d)
              /\ IF skipsExecution(autonomy)
                   THEN Exit("submit", id, autonomy, FALSE, 0)
                   ELSE Execute("submit", id, autonomy, FALSE, newRequest(id, d))

cmdRetry ==
  /\ UNCHANGED <<agentVars, unitVars, procs>>
  /\ pc = "idle"
  /\ remote' = NoRemote
  /\ \E id \in ApiIds, autonomy \in AutonomyInputs, force \in BOOLEAN :
       LET request == readRequest(id) IN
       \* a command starts another run while the request has fewer than MaxRuns attempts
       /\ Attempts(id) < MaxRuns
       /\ UNCHANGED ledgerVars
       /\ IF request = NoRequest THEN Exit("retry", id, autonomy, force, 1)
          ELSE IF ~canRetry(request, force) THEN Exit("retry", id, autonomy, force, 1)
          ELSE IF ~validateAutonomy(autonomy) THEN Exit("retry", id, autonomy, force, 1)
          ELSE IF skipsExecution(autonomy) THEN Exit("retry", id, autonomy, force, 0)
          ELSE Execute("retry", id, autonomy, force, [request EXCEPT !.status = "ingested"])

cmdAmend ==
  /\ UNCHANGED <<agentVars, unitVars, procs>>
  /\ pc = "idle"
  /\ remote' = NoRemote
  /\ \E id \in ApiIds, autonomy \in AutonomyInputs, d \in Descriptions :
       LET request == readRequest(id) IN
       \* a command starts another run while the request has fewer than MaxRuns attempts
       /\ Attempts(id) < MaxRuns
       /\ Specs(id) < MaxSpecs
       /\ IF request = NoRequest \/ ~canAmend(request) \/ ~validateAutonomy(autonomy)
            THEN /\ Exit("amend", id, autonomy, FALSE, 1)
                 /\ UNCHANGED ledgerVars
            ELSE /\ amendRequest(id, d)
                 /\ IF skipsExecution(autonomy)
                      THEN Exit("amend", id, autonomy, FALSE, 0)
                      ELSE Execute("amend", id, autonomy, FALSE, requests'[id])

\* ------------------------------------------------------------------------
\* cli.js: executeRequest
\* ------------------------------------------------------------------------
Done ==
  /\ Exit(cmd.name, cmd.id, cmd.autonomy, cmd.force, 0)
  /\ UNCHANGED remote

FailedAttempt(commit, reason) ==
  [status |-> "failed", commit |-> commit, reason |-> reason, summary |-> Absent]

\* the catch block, were it to swallow the error
Catch_off(message) ==
  /\ UNCHANGED ledgerVars
  /\ Done

\* the catch block: record a failed attempt carrying the error's message
Catch(message) ==
  /\ recordAttempt(req.id, FailedAttempt(Absent, message))
  /\ Done

\* isAmend, were no request to count as amended
isAmend_off == FALSE

\* const isAmend = request.spec.length > 1
isAmend == Len(req.spec) > 1

\* 1. prepare the workspace and the branch
PrepareWorkspace ==
  /\ UNCHANGED <<agentVars, unitVars, procs>>
  /\ pc = "prepare"
  /\ pc' = "agent"
  /\ UNCHANGED <<ledgerVars, cmd, req, result, commitHash, remote>>

PrepareWorkspaceThrows ==
  /\ UNCHANGED <<agentVars, unitVars, procs>>
  /\ pc = "prepare"
  /\ Catch("git fetch failed (exit 128)")

\* 2. run the agent
AgentSucceeds ==
  /\ UNCHANGED <<agentVars, unitVars, procs>>
  /\ pc = "agent"
  /\ \E o \in AgentSuccesses : result' = o
  /\ pc' = "commit"
  /\ UNCHANGED <<ledgerVars, cmd, req, commitHash, remote>>

AgentFails ==
  /\ UNCHANGED <<agentVars, unitVars, procs>>
  /\ pc = "agent"
  /\ \E o \in AgentFailures :
       recordAttempt(req.id, FailedAttempt(Absent, o.error))
  /\ Done

AgentThrows ==
  /\ UNCHANGED <<agentVars, unitVars, procs>>
  /\ pc = "agent"
  /\ \E m \in AgentErrors : Catch(m)

\* 3. commit the changes
CommitAll ==
  /\ UNCHANGED <<agentVars, unitVars, procs>>
  /\ pc = "commit"
  /\ pc' = "test"
  /\ commitHash' = "abc1234"
  /\ UNCHANGED <<ledgerVars, cmd, req, result, remote>>

CommitNothing ==
  /\ UNCHANGED <<agentVars, unitVars, procs>>
  /\ pc = "commit"
  /\ recordAttempt(req.id,
       FailedAttempt(Absent, "Agent reported success but no files were changed"))
  /\ Done

\* 4. run the local tests if configured
\* what the test command printed: the lengths of its stderr and stdout
TestOutputs ==
  { [stderr |-> 0, stdout |-> 0],
    [stderr |-> 486, stdout |-> 900],
    [stderr |-> 0, stdout |-> 487] }

\* the reason of a test failure, were it kept whole
testsFailedReason_off(out) ==
  LET shown == IF out.stderr # 0 THEN "stderr" ELSE "stdout" IN
    [text |-> "Tests failed", shown |-> shown, length |-> 14 + out[shown]]

\* `Tests failed: ${testResult.stderr || testResult.stdout}`.slice(0, 500):
\* the reason as what it shows and how long it is
testsFailedReason(out) ==
  LET shown == IF out.stderr # 0 THEN "stderr" ELSE "stdout"
      whole == 14 + out[shown]
  IN [text |-> "Tests failed", shown |-> shown,
      length |-> IF whole > 500 THEN 500 ELSE whole]

TestsFail ==
  /\ UNCHANGED <<agentVars, unitVars, procs>>
  /\ pc = "test"
  /\ \E out \in TestOutputs :
       recordAttempt(req.id, FailedAttempt(commitHash, testsFailedReason(out)))
  /\ Done

\* 5. tests pass or none is configured: record the successful attempt
RecordSuccess ==
  /\ UNCHANGED <<agentVars, unitVars, procs>>
  /\ pc = "test"
  /\ recordAttempt(req.id,
       [status |-> "succeeded", commit |-> commitHash, reason |-> Absent,
        summary |-> IF result.summary = << >> THEN Absent ELSE result.summary])
  /\ IF cmd.autonomy = "execute_local"
       THEN Done
       ELSE /\ pc' = "push"
            /\ UNCHANGED <<cmd, req, result, commitHash, remote>>

\* 6. push the branch
PushBranch ==
  /\ UNCHANGED <<agentVars, unitVars, procs>>
  /\ pc = "push"
  /\ pc' = "pr"
  /\ remote' = [remote EXCEPT !.pushed = TRUE, !.force = cmd.force, !.branch = req.branch]
  /\ UNCHANGED <<ledgerVars, cmd, req, result, commitHash>>

PushBranchThrows ==
  /\ UNCHANGED <<agentVars, unitVars, procs>>
  /\ pc = "push"
  /\ Catch("git push failed (exit 1)")

\* 7. open the pull request, or reuse the amended request's
OpenPR ==
  /\ UNCHANGED <<agentVars, unitVars, procs>>
  /\ pc = "pr"
  /\ IF isAmend /\ req.pr_url # Absent
       THEN /\ markApplied(req.id, req.pr_url)
            /\ UNCHANGED remote
       ELSE /\ \E u \in PrUrls : markApplied(req.id, u)
            \* createPR({ ..., draft: isDraft }), then enableAutoMerge for full
            /\ remote' = [remote EXCEPT
                 !.pr = IF cmd.autonomy # "full" THEN "draft" ELSE "ready",
                 !.autoMerge = (cmd.autonomy = "full")]
  /\ Exit(cmd.name, cmd.id, cmd.autonomy, cmd.force, 0)

CreatePRThrows ==
  /\ UNCHANGED <<agentVars, unitVars, procs>>
  /\ pc = "pr"
  /\ ~(isAmend /\ req.pr_url # Absent)
  /\ Catch("GitHub API error (422)")

\* ------------------------------------------------------------------------
\* Text: a string that may span lines is the sequence of its lines;
\* undefined, null and "" are all the empty sequence (falsy)
\* ------------------------------------------------------------------------
NoText == << >>
NoId == << >>

\* String.prototype.indexOf over sequences of characters; 0 when absent
MatchesAt(s, t, k) ==
  /\ k >= 1
  /\ k + Len(t) - 1 <= Len(s)
  /\ \A j \in 1..Len(t) : s[k + j - 1] = t[j]

IndexOf(s, t, from) ==
  IF \E k \in from..(Len(s) + 1) : MatchesAt(s, t, k)
    THEN CHOOSE k \in from..(Len(s) + 1) :
           /\ MatchesAt(s, t, k)
           /\ \A m \in from..(k - 1) : ~MatchesAt(s, t, m)
    ELSE 0

RECURSIVE SplitCount(_, _, _)
\* the number of separators String.prototype.split consumes, left to right
SplitCount(s, sep, from) ==
  LET k == IndexOf(s, sep, from) IN
    IF k = 0 THEN 0 ELSE 1 + SplitCount(s, sep, k + Len(sep))

\* content.split(separator).length
SplitLength(s, sep) ==
  IF sep = << >> THEN Len(s) ELSE SplitCount(s, sep, 1) + 1

RECURSIVE Substitute(_, _, _, _)
\* GetSubstitution: the replacement patterns of String.prototype.replace
Substitute(new, matched, before, after) ==
  IF new = << >> THEN << >>
  ELSE IF new[1] = "$" /\ Len(new) >= 2 /\ new[2] \in {"$", "&", "`", "'"}
    THEN (CASE new[2] = "$" -> <<"$">>
            [] new[2] = "&" -> matched
            [] new[2] = "`" -> before
            [] new[2] = "'" -> after)
         \o Substitute(SubSeq(new, 3, Len(new)), matched, before, after)
    ELSE <<new[1]>> \o Substitute(Tail(new), matched, before, after)

\* content.replace(old, new) with a string pattern: the first match only
Replace(s, old, new) ==
  LET k == IndexOf(s, old, 1) IN
    IF k = 0 THEN s
    ELSE LET before == SubSeq(s, 1, k - 1)
             after == SubSeq(s, k + Len(old), Len(s))
         IN before \o Substitute(new, old, before, after) \o after

\* ------------------------------------------------------------------------
\* agent.js: executeTool over the workspace files
\* ------------------------------------------------------------------------
\* the path values a tool input may carry
Paths == {"a.txt", "new.txt", "sub/../a.txt", "/etc/passwd", "../secret.txt"}

\* a path as its components
Segments(path) ==
  CASE path = "a.txt" -> <<"a.txt">>
    [] path = "new.txt" -> <<"new.txt">>
    [] path = "sub/../a.txt" -> <<"sub", "..", "a.txt">>
    [] path = "/etc/passwd" -> <<"", "etc", "passwd">>
    [] path = "../secret.txt" -> <<"..", "secret.txt">>

\* workspacePath(projectName): the workspace root, an absolute location
wsPath == <<"workspaces", "p">>

RECURSIVE Normalize(_, _)
\* path.normalize: empty and "." components go, ".." takes the one before it
Normalize(segments, sofar) ==
  IF segments = << >> THEN sofar
  ELSE IF Head(segments) \in {"", "."} THEN Normalize(Tail(segments), sofar)
  ELSE IF Head(segments) = ".."
    THEN Normalize(Tail(segments),
                   IF sofar = << >> THEN << >> ELSE SubSeq(sofar, 1, Len(sofar) - 1))
  ELSE Normalize(Tail(segments), Append(sofar, Head(segments)))

\* path.join(base, path)
join(base, path) == Normalize(base \o Segments(path), << >>)

\* the file-system locations the path values reach
Places == {join(wsPath, path) : path \in Paths}

NoFile == [exists |-> FALSE, text |-> << >>]
File(text) == [exists |-> TRUE, text |-> text]

\* the disk after checkout: a.txt in the workspace holds "xyx", secret.txt
\* beside the workspace holds "s", nothing else exists
InitialFiles ==
  [place \in Places |->
     IF place = join(wsPath, "a.txt") THEN File(<<"x", "y", "x">>)
     ELSE IF place = join(wsPath, "../secret.txt") THEN File(<<"s">>)
     ELSE NoFile]

Has(input, field) == field \in DOMAIN input

Returned(payload, fs) ==
  [threw |-> FALSE, message |-> NoText, payload |-> payload, files |-> fs]

Threw(message, fs) ==
  [threw |-> TRUE, message |-> message, payload |-> [error |-> message], files |-> fs]

\* path.join(wsPath, undefined)
JoinTypeError == <<"The \"path\" argument must be of type string. Received undefined">>

editFile(fs, input) ==
  IF ~fs[join(wsPath, input.path)].exists
    THEN Returned([error |-> <<"File not found", input.path>>], fs)
    ELSE
      LET content == fs[join(wsPath, input.path)].text
          occurrences == SplitLength(content, input.old_string) - 1
      IN IF occurrences = 0
           THEN Returned([error |-> <<"old_string not found in", input.path>>], fs)
         ELSE IF occurrences > 1
           THEN Returned([error |-> <<"old_string appears several times in", input.path>>], fs)
         ELSE Returned([success |-> TRUE, message |-> <<"Edited", input.path>>],
                       [fs EXCEPT ![join(wsPath, input.path)] =
                          File(Replace(content, input.old_string, input.new_string))])

executeTool(fs, toolName, toolInput) ==
  CASE toolName = "read_file" ->
         IF ~Has(toolInput, "path") THEN Threw(JoinTypeError, fs)
         ELSE IF ~fs[join(wsPath, toolInput.path)].exists
           THEN Returned([error |-> <<"File not found", toolInput.path>>], fs)
           ELSE Returned([content |-> fs[join(wsPath, toolInput.path)].text], fs)
    [] toolName = "write_file" ->
         IF ~Has(toolInput, "path") THEN Threw(JoinTypeError, fs)
         ELSE Returned([success |-> TRUE, message |-> <<"Wrote", toolInput.path>>],
                       [fs EXCEPT ![join(wsPath, toolInput.path)] = File(toolInput.content)])
    [] toolName = "execute_command" ->
         Returned([stdout |-> << >>, stderr |-> << >>,
                   exit_code |-> IF toolInput.command = "false" THEN 1 ELSE 0], fs)
    [] toolName = "edit_file" ->
         IF ~Has(toolInput, "path") THEN Threw(JoinTypeError, fs)
         ELSE editFile(fs, toolInput)
    [] toolName = "delete_file" ->
         IF ~Has(toolInput, "path") THEN Threw(JoinTypeError, fs)
         ELSE IF ~fs[join(wsPath, toolInput.path)].exists
           THEN Returned([error |-> <<"File not found", toolInput.path>>], fs)
           ELSE Returned([success |-> TRUE, message |-> <<"Deleted", toolInput.path>>],
                         [fs EXCEPT ![join(wsPath, toolInput.path)] = NoFile])
    [] toolName = "get_file_info" ->
         IF ~Has(toolInput, "path") THEN Threw(JoinTypeError, fs)
         ELSE IF ~fs[join(wsPath, toolInput.path)].exists
           THEN Returned([exists |-> FALSE], fs)
           ELSE Returned([exists |-> TRUE, type |-> "file",
                          size |-> Len(fs[join(wsPath, toolInput.path)].text)], fs)
    [] toolName = "done" ->
         Returned([done |-> TRUE,
                   title |-> IF Has(toolInput, "title") THEN toolInput.title ELSE NoText,
                   summary |-> IF Has(toolInput, "summary") THEN toolInput.summary ELSE NoText],
                  fs)
    [] OTHER -> Returned([error |-> <<"Unknown tool", toolName>>], fs)

\* if (result.done), were a failed tool call to end the run as well
SignalsDone_off(payload) ==
  ("done" \in DOMAIN payload /\ payload.done) \/ "error" \in DOMAIN payload

\* if (result.done)
SignalsDone(payload) == "done" \in DOMAIN payload /\ payload.done

\* JSON.stringify(result)
Stringify(payload) == [json |-> payload]

\* ------------------------------------------------------------------------
\* The backend: what the model may answer in one turn, and the response the
\* backend wraps it in
\* ------------------------------------------------------------------------
ReadA == [name |-> "read_file", input |-> [path |-> "a.txt"]]
ReadNew == [name |-> "read_file", input |-> [path |-> "new.txt"]]
ReadNoPath == [name |-> "read_file", input |-> [encoding |-> "utf8"]]
WriteNew == [name |-> "write_file", input |-> [path |-> "new.txt", content |-> <<"n">>]]
EditOnce == [name |-> "edit_file",
             input |-> [path |-> "a.txt", old_string |-> <<"y">>, new_string |-> <<"w">>]]
EditTwice == [name |-> "edit_file",
              input |-> [path |-> "a.txt", old_string |-> <<"x">>, new_string |-> <<"z">>]]
EditNone == [name |-> "edit_file",
             input |-> [path |-> "a.txt", old_string |-> <<"q">>, new_string |-> <<"z">>]]
DeleteNew == [name |-> "delete_file", input |-> [path |-> "new.txt"]]
InfoNew == [name |-> "get_file_info", input |-> [path |-> "new.txt"]]
RunTests == [name |-> "execute_command", input |-> [command |-> "false"]]
RenameA == [name |-> "rename_file", input |-> [path |-> "a.txt"]]
SayDone == [name |-> "done",
            input |-> [title |-> <<"Add validation">>, summary |-> <<"Validated", "input">>]]
SayDoneBare == [name |-> "done", input |-> [note |-> "x"]]

Turn(text, calls, stop) == [text |-> text, calls |-> calls, stop |-> stop]

\* the turn every later response repeats when the run is to go on
FillerTurn == Turn(NoText, <<ReadA>>, "tool_use")

ContinuingTurns ==
  { FillerTurn,
    Turn(<<"Looking">>, <<ReadNew, WriteNew>>, "tool_use"),
    Turn(NoText, <<EditTwice, EditNone, EditOnce>>, "tool_use"),
    Turn(NoText, <<RenameA, DeleteNew, InfoNew, RunTests>>, "tool_use") }

EndingTurns ==
  { Turn(<<"All done">>, << >>, "end"),
    Turn(NoText, << >>, "end"),
    Turn(<<"Cut", "off">>, << >>, "max_tokens"),
    Turn(NoText, <<EditOnce, SayDone, DeleteNew>>, "tool_use"),
    Turn(<<"Oops">>, <<RenameA, SayDoneBare, ReadA>>, "tool_use"),
    Turn(NoText, <<ReadNoPath, SayDone>>, "tool_use") }

\* the first VariedTurns turns and the last turn are free; in between a run
\* either repeats the filler turn or ends
TurnChoices(turn) ==
  IF turn <= VariedTurns \/ turn = MAX_TURNS
    THEN ContinuingTurns \cup EndingTurns
    ELSE {FillerTurn} \cup EndingTurns

Providers == {"claude", "gemini"}

\* the Messages API response carrying turn t (tool_use ids are the backend's)
ClaudeResponse(t, turn) ==
  [stop_reason |-> CASE t.stop = "end" -> "end_turn"
                     [] t.stop = "tool_use" -> "tool_use"
                     [] OTHER -> "max_tokens",
   content |->
     (IF t.text = NoText THEN << >> ELSE << [type |-> "text", text |-> t.text] >>)
     \o [k \in 1..Len(t.calls) |->
           [type |-> "tool_use", id |-> <<"toolu", turn, k>>,
            name |-> t.calls[k].name, input |-> t.calls[k].input]]]

\* the generateContent response carrying turn t
GeminiResponse(t) ==
  [candidates |-> <<
     [finishReason |-> IF t.stop = "max_tokens" THEN "MAX_TOKENS" ELSE "STOP",
      content |-> [parts |->
        (IF t.text = NoText THEN << >> ELSE << [text |-> t.text] >>)
        \o [k \in 1..Len(t.calls) |->
              [functionCall |-> [name |-> t.calls[k].name, args |-> t.calls[k].input]]]]] >>]

GeminiNoCandidates == [candidates |-> << >>]

Responses(provider, turn) ==
  IF provider = "claude"
    THEN {ClaudeResponse(t, turn) : t \in TurnChoices(turn)}
    ELSE {GeminiResponse(t) : t \in TurnChoices(turn)} \cup {GeminiNoCandidates}

\* ------------------------------------------------------------------------
\* providers/claude.js and providers/gemini.js
\* ------------------------------------------------------------------------
RECURSIVE JoinLines(_)
\* textBlocks.map((b) => b.text).join("\n")
JoinLines(texts) == IF texts = << >> THEN << >> ELSE Head(texts) \o JoinLines(Tail(texts))

Parsed(text, toolCalls, done, raw) ==
  [threw |-> FALSE, text |-> text, toolCalls |-> toolCalls, done |-> done, raw |-> raw]

\* the Claude parser, were done to follow the stop reason alone
claudeParseResponse_off(apiResponse) ==
  LET textBlocks == SelectSeq(apiResponse.content, LAMBDA c : c.type = "text")
      toolBlocks == SelectSeq(apiResponse.content, LAMBDA c : c.type = "tool_use")
      toolCalls == [k \in 1..Len(toolBlocks) |->
                      [id |-> toolBlocks[k].id, name |-> toolBlocks[k].name,
                       input |-> toolBlocks[k].input]]
  IN Parsed(JoinLines([k \in 1..Len(textBlocks) |-> textBlocks[k].text]),
            toolCalls,
            apiResponse.stop_reason = "end_turn",
            apiResponse.content)

claudeParseResponse(apiResponse) ==
  LET textBlocks == SelectSeq(apiResponse.content, LAMBDA c : c.type = "text")
      toolBlocks == SelectSeq(apiResponse.content, LAMBDA c : c.type = "tool_use")
      toolCalls == [k \in 1..Len(toolBlocks) |->
                      [id |-> toolBlocks[k].id, name |-> toolBlocks[k].name,
                       input |-> toolBlocks[k].input]]
  IN Parsed(JoinLines([k \in 1..Len(textBlocks) |-> textBlocks[k].text]),
            toolCalls,
            apiResponse.stop_reason = "end_turn" /\ Len(toolCalls) = 0,
            apiResponse.content)

geminiParseResponse(apiResponse, clock) ==
  IF Len(apiResponse.candidates) = 0
    THEN [threw |-> TRUE, message |-> <<"Gemini returned no candidates">>]
    ELSE
      LET candidate == apiResponse.candidates[1]
          parts == candidate.content.parts
          textParts == SelectSeq(parts, LAMBDA q : "text" \in DOMAIN q /\ q.text # NoText)
          functionCallParts == SelectSeq(parts, LAMBDA q : "functionCall" \in DOMAIN q)
          toolCalls == [k \in 1..Len(functionCallParts) |->
                          [id |-> <<"gemini_call", clock, k - 1>>,
                           name |-> functionCallParts[k].functionCall.name,
                           input |-> functionCallParts[k].functionCall.args]]
      IN Parsed(JoinLines([k \in 1..Len(textParts) |-> textParts[k].text]),
                toolCalls,
                candidate.finishReason = "STOP" /\ Len(toolCalls) = 0,
                parts)

parseResponse(provider, apiResponse, clock) ==
  IF provider = "claude" THEN claudeParseResponse(apiResponse)
  ELSE geminiParseResponse(apiResponse, clock)

formatUserMessage(text) == [role |-> "user", content |-> text]

formatAssistantMessage(rawContent) == [role |-> "assistant", content |-> rawContent]

\* formatToolResults, were it to list the results last to first
formatToolResults_off(provider, results) ==
  [role |-> "user",
   content |-> [k \in 1..Len(results) |->
     IF provider = "claude"
       THEN [type |-> "tool_result", tool_use_id |-> results[Len(results) + 1 - k].id,
             content |-> results[Len(results) + 1 - k].content]
       ELSE [type |-> "tool_result", _name |-> results[Len(results) + 1 - k].name,
             content |-> results[Len(results) + 1 - k].content]]]

\* formatToolResults of the adapter in use
formatToolResults(provider, results) ==
  [role |-> "user",
   content |-> [k \in 1..Len(results) |->
     IF provider = "claude"
       THEN [type |-> "tool_result", tool_use_id |-> results[k].id,
             content |-> results[k].content]
       ELSE [type |-> "tool_result", _name |-> results[k].name,
             content |-> results[k].content]]]

\* claude.js formatRequest: the history goes out as it is
claudeFormatRequest(history) ==
  [model |-> "claude-sonnet-4-20250514", max_tokens |-> 16384, messages |-> history]

RECURSIVE ConvertBlocks(_)
\* gemini.js convertMessage, array content: one part per block whose type is
\* text, tool_use or tool_result; any other block yields nothing
ConvertBlocks(blocks) ==
  IF blocks = << >> THEN << >>
  ELSE LET block == Head(blocks)
           type == IF "type" \in DOMAIN block THEN block.type ELSE "undefined"
       IN (CASE type = "text" -> << [text |-> block.text] >>
             [] type = "tool_use" ->
                  << [functionCall |-> [name |-> block.name, args |-> block.input]] >>
             [] type = "tool_result" ->
                  << [functionResponse |->
                        [name |-> IF "_name" \in DOMAIN block THEN block._name ELSE "tool",
                         response |-> [content |-> block.content]]] >>
             [] OTHER -> << >>)
          \o ConvertBlocks(Tail(blocks))

\* gemini.js convertMessage; isString is typeof msg.content === "string"
convertMessage(msg, isString) ==
  LET role == IF msg.role = "assistant" THEN "model" ELSE "user"
  IN IF isString THEN [role |-> role, parts |-> << [text |-> msg.content] >>]
     ELSE [role |-> role, parts |-> ConvertBlocks(msg.content)]

\* gemini.js formatRequest; in runAgent's history the first message, made by
\* formatUserMessage, is the one whose content is a string
geminiFormatRequest(history) ==
  [contents |-> [k \in 1..Len(history) |-> convertMessage(history[k], k = 1)],
   generationConfig |-> [maxOutputTokens |-> 16384]]

\* formatRequest of the adapter in use
formatRequest(name, history) ==
  IF name = "claude" THEN claudeFormatRequest(history) ELSE geminiFormatRequest(history)

NoRequestBody == [model |-> "none"]

\* call(): the error thrown for a response that is not ok
CallError(provider) ==
  IF provider = "claude" THEN <<"Claude API error (500)">> ELSE <<"Gemini API error (500)">>

\* ------------------------------------------------------------------------
\* agent.js: runAgent
\* ------------------------------------------------------------------------
NoParsed == [threw |-> FALSE, text |-> NoText, toolCalls |-> << >>, done |-> FALSE,
             raw |-> << >>, none |-> TRUE]
NoHist == [calls |-> 0, responses |-> 0, withTools |-> 0, doneExecuted |-> FALSE]

\* getProvider: LLM_PROVIDER, "claude" when it is not set
provider == IF env.LLM_PROVIDER = "" THEN "claude" ELSE env.LLM_PROVIDER

Success(title, summary) ==
  [kind |-> "return", success |-> TRUE, title |-> title, summary |-> summary,
   error |-> NoText]

Failure(error) ==
  [kind |-> "return", success |-> FALSE, title |-> NoText, summary |-> NoText,
   error |-> error]

Thrown(message) ==
  [kind |-> "throw", success |-> FALSE, title |-> NoText, summary |-> NoText,
   error |-> message]

ExceededError == <<"Agent exceeded maximum turns (50)">>
DefaultSummary == <<"Changes implemented">>

\* a property read: undefined when the object does not have it
Field(object, name) == IF name \in DOMAIN object THEN object[name] ELSE NoText

\* the outcome of a done call, were its title and summary dropped
DoneOutcome_off(payload) == Success(NoText, DefaultSummary)

\* { success: true, title: result.title, summary: result.summary }
DoneOutcome(payload) == Success(Field(payload, "title"), Field(payload, "summary"))

\* the summary of a text-only ending, were the default left out
TextSummary_raw(text) == text

\* parsed.text || "Changes implemented"

TextSummary(text) == IF text = NoText THEN DefaultSummary ELSE text

\* the initial user message; an amendment is told what was done before
userText(request) ==
  IF Len(request.spec) > 1
    THEN LET priorSpecs == SubSeq(request.spec, 1, Len(request.spec) - 1)
             priorSummaries ==
               SelectSeq(request.attempts,
                         LAMBDA a : a.status = "succeeded" /\ a.summary # Absent)
         IN <<"## Prior work on this branch">>
            \o [k \in 1..Len(priorSpecs) |-> priorSpecs[k].description]
            \o [k \in 1..Len(priorSummaries) |-> priorSummaries[k].summary]
            \o <<"## New amendment", request.spec[Len(request.spec)].description>>
    ELSE <<"Please implement the following change:",
           request.spec[Len(request.spec)].description>>

Return(o) ==
  /\ apc' = "returned"
  /\ outcome' = o

Throw(message) ==
  /\ apc' = "thrown"
  /\ outcome' = Thrown(message)

\* getProvider, resolveCredential and the initial user message
StartAgent ==
  /\ apc = "start"
  /\ IF provider \notin Providers
       THEN /\ Throw(<<"Unknown LLM provider", provider>>)
            /\ UNCHANGED messages
     ELSE IF ~env.hasKey
       THEN /\ Throw(<<"Credential not found">>)
            /\ UNCHANGED messages
     ELSE /\ messages' = <<formatUserMessage(userText(req))>>
          /\ apc' = "loop"
          /\ UNCHANGED outcome
  /\ UNCHANGED <<unitVars, ledgerVars, cliVars, formattedRequest, env, turns, parsed, ti, toolResults, files, now,
                 hist, execLog>>

\* the loop condition, were it to admit one turn more
WithinBudget_off(t) == t <= MAX_TURNS

\* while (turns < MAX_TURNS)

WithinBudget(t) == t < MAX_TURNS

\* the loop head: the next request is formatted and sent, or the budget is spent
LoopHead ==
  /\ apc = "loop"
  /\ IF WithinBudget(turns)
       THEN /\ turns' = turns + 1
            /\ apc' = "calling"
            /\ hist' = [hist EXCEPT !.calls = @ + 1]
            /\ execLog' = << >>
            /\ formattedRequest' = formatRequest(provider, messages)
            /\ UNCHANGED outcome
       ELSE /\ Return(Failure(ExceededError))
            /\ UNCHANGED <<turns, hist, execLog, formattedRequest>>
  /\ UNCHANGED <<unitVars, ledgerVars, cliVars, env, messages, parsed, ti, toolResults, files, now>>

\* provider.call throws: the backend answered with an error status
ProviderCallThrows ==
  /\ apc = "calling"
  /\ Throw(CallError(provider))
  /\ UNCHANGED <<unitVars, ledgerVars, cliVars, formattedRequest, env, turns, messages, parsed, ti, toolResults, files,
                 now, hist, execLog>>

\* what Date.now() may read while a response is parsed: the millisecond of
\* the previous response's parse, or a later one
ClockReads ==
  IF provider = "claude" THEN {now}
  ELSE IF 1 < turns /\ turns <= VariedTurns + 1 THEN {now, now + 1} ELSE {now + 1}

\* whether a backend response asks for a tool
RequestsTool(apiResponse) ==
  IF "content" \in DOMAIN apiResponse
    THEN \E k \in 1..Len(apiResponse.content) : apiResponse.content[k].type = "tool_use"
    ELSE /\ Len(apiResponse.candidates) > 0
         /\ \E k \in 1..Len(apiResponse.candidates[1].content.parts) :
              "functionCall" \in DOMAIN apiResponse.candidates[1].content.parts[k]

\* provider.call returns: parse, append the assistant turn, decide
ProviderResponds ==
  /\ apc = "calling"
  /\ \E apiResponse \in Responses(provider, turns), clock \in ClockReads :
       LET p == parseResponse(provider, apiResponse, clock) IN
         /\ now' = clock
         /\ hist' = [hist EXCEPT
              !.responses = @ + 1,
              !.withTools = @ + (IF RequestsTool(apiResponse) THEN 1 ELSE 0)]
         /\ IF p.threw
              THEN /\ Throw(p.message)
                   /\ UNCHANGED <<messages, parsed, ti, toolResults, execLog>>
              ELSE /\ parsed' = p
                   /\ messages' = Append(messages, formatAssistantMessage(p.raw))
                   /\ execLog' = << >>
                   /\ toolResults' = << >>
                   /\ ti' = 1
                   /\ IF p.done \/ Len(p.toolCalls) = 0
                        THEN Return(Success(NoText, TextSummary(p.text)))
                        ELSE /\ apc' = "tools"
                             /\ UNCHANGED outcome
  /\ UNCHANGED <<unitVars, ledgerVars, cliVars, formattedRequest, env, turns, files>>

\* one pass of the for loop: execute toolCalls[ti]
RunToolCall ==
  /\ apc = "tools"
  /\ LET toolCall == parsed.toolCalls[ti]
         r == executeTool(files, toolCall.name, toolCall.input)
         results == Append(toolResults,
                           [id |-> toolCall.id, name |-> toolCall.name,
                            content |-> Stringify(r.payload)])
     IN /\ files' = r.files
        /\ execLog' = Append(execLog, ti)
        /\ hist' = [hist EXCEPT !.doneExecuted = @ \/ toolCall.name = "done"]
        /\ IF r.threw
             THEN /\ Throw(r.message)
                  /\ UNCHANGED <<messages, ti, toolResults>>
           ELSE IF SignalsDone(r.payload)
             THEN /\ Return(DoneOutcome(r.payload))
                  /\ UNCHANGED <<messages, ti, toolResults>>
           ELSE /\ toolResults' = results
                /\ UNCHANGED outcome
                /\ IF ti = Len(parsed.toolCalls)
                     THEN /\ messages' = Append(messages, formatToolResults(provider, results))
                          /\ apc' = "loop"
                          /\ UNCHANGED ti
                     ELSE /\ ti' = ti + 1
                          /\ UNCHANGED <<messages, apc>>
  /\ UNCHANGED <<unitVars, ledgerVars, cliVars, formattedRequest, env, turns, parsed, now>>

\* ------------------------------------------------------------------------
\* executeTool on its own: one call against a workspace
\* ------------------------------------------------------------------------
NoCall == [name |-> "none"]

\* ------------------------------------------------------------------------
\* providers/retry.js
\* ------------------------------------------------------------------------
FETCH_MAX_RETRIES == 5
BASE_DELAY_MS == 1000
MAX_DELAY_MS == 60000

RETRYABLE_STATUS_CODES == {429, 529, 500, 502, 503, 504}

isRetryable(status) == status \in RETRYABLE_STATUS_CODES

\* the statuses a backend answers with
StatusCodes == {200, 201, 400, 401, 404, 429, 500, 501, 502, 503, 504, 529}

\* the retry-after header values ("" when the header is absent)
RetryAfters == {"", "5", "120", "0", "-3", "0.5", "soon"}

HttpResponses == [status : StatusCodes, retryAfter : RetryAfters]

NoResponse == [status |-> 0, retryAfter |-> ""]

\* response.ok
ok(response) == response.status \in 200..299

\* Number(retryAfter), in thousandths; NaN for what is not a number
Number(text) ==
  CASE text = "5" -> [nan |-> FALSE, milli |-> 5000]
    [] text = "120" -> [nan |-> FALSE, milli |-> 120000]
    [] text = "0" -> [nan |-> FALSE, milli |-> 0]
    [] text = "-3" -> [nan |-> FALSE, milli |-> -3000]
    [] text = "0.5" -> [nan |-> FALSE, milli |-> 500]
    [] OTHER -> [nan |-> TRUE, milli |-> 0]

Min(a, b) == IF a <= b THEN a ELSE b

\* 0.5 + Math.random() * 0.5, in thousandths
Jitters == {500, 750, 999}

\* the backoff base, were it to grow linearly
exponential_off(k) == BASE_DELAY_MS * 2 * k

\* BASE_DELAY_MS * Math.pow(2, attempt)
exponential(k) == BASE_DELAY_MS * 2 ^ k

getRetryDelay(response, k, jitter) ==
  LET retryAfter == response.retryAfter
      seconds == Number(retryAfter)
  IN IF retryAfter # "" /\ ~seconds.nan /\ seconds.milli > 0
       THEN Min(seconds.milli, MAX_DELAY_MS)
       ELSE Min((exponential(k) * jitter) \div 1000, MAX_DELAY_MS)

\* the loop condition, were it to stop one attempt early
WithinRetries_off(k, n) == k < n

\* attempt <= maxRetries
WithinRetries(k, n) == k <= n

\* the early return, were it to look at response.ok alone
ReturnsAtOnce_off(response) == ok(response)

\* response.ok || !isRetryable(response.status)
ReturnsAtOnce(response) == ok(response) \/ ~isRetryable(response.status)

NoRhist == [fetches |-> 0, sleeps |-> 0, wakes |-> 0, retryable |-> 0, last |-> NoResponse]

RetryIdle ==
  /\ caller = "none"
  /\ rpc = "idle"
  /\ maxRetries = 0
  /\ attemptNo = 0
  /\ lastResponse = NoResponse
  /\ delayMs = 0
  /\ retryOut = NoOutcome
  /\ callOut = NoOutcome
  /\ rhist = NoRhist

Fetched(response) ==
  [rhist EXCEPT !.fetches = @ + 1, !.last = response,
                !.retryable = @ + (IF isRetryable(response.status) THEN 1 ELSE 0)]

\* the for loop's update and test after an iteration without an early return
NextAttempt ==
  /\ attemptNo' = attemptNo + 1
  /\ IF WithinRetries(attemptNo + 1, maxRetries)
       THEN rpc' = "fetch" /\ UNCHANGED retryOut
       ELSE rpc' = "returned" /\ retryOut' = [kind |-> "return", response |-> lastResponse']

\* one iteration of fetchWithRetry's loop up to its sleep
Fetch ==
  /\ rpc = "fetch"
  /\ caller # "gemini"
  /\ \E response \in HttpResponses, jitter \in Jitters :
       /\ rhist' = IF attemptNo < maxRetries /\ ~ReturnsAtOnce(response)
                     THEN [Fetched(response) EXCEPT !.sleeps = @ + 1]
                     ELSE Fetched(response)
       /\ IF ReturnsAtOnce(response)
            THEN /\ rpc' = "returned"
                 /\ retryOut' = [kind |-> "return", response |-> response]
                 /\ UNCHANGED <<lastResponse, attemptNo, delayMs>>
          ELSE /\ lastResponse' = response
               /\ IF attemptNo < maxRetries
                    THEN /\ delayMs' = getRetryDelay(response, attemptNo, jitter)
                         /\ rpc' = "sleep"
                         /\ UNCHANGED <<attemptNo, retryOut>>
                    ELSE /\ NextAttempt
                         /\ UNCHANGED delayMs
  /\ UNCHANGED <<ledgerVars, cliVars, agentVars, toolVars, caller, maxRetries, callOut>>

\* fetch rejects: the transport failed, and so does whoever awaits it
FetchThrows ==
  /\ rpc = "fetch"
  /\ rpc' = "thrown"
  /\ retryOut' = [kind |-> "throw", message |-> <<"fetch failed">>]
  /\ callOut' = IF caller = "direct" THEN callOut
                ELSE [kind |-> "throw", message |-> <<"fetch failed">>, status |-> 0]
  /\ UNCHANGED <<ledgerVars, cliVars, agentVars, toolVars, caller, maxRetries, attemptNo,
                 lastResponse, delayMs, rhist>>

\* the sleep is over: the loop goes round
Wake ==
  /\ rpc = "sleep"
  /\ rhist' = [rhist EXCEPT !.wakes = @ + 1]
  /\ lastResponse' = lastResponse
  /\ NextAttempt
  /\ UNCHANGED <<ledgerVars, cliVars, agentVars, toolVars, caller, maxRetries, delayMs,
                 callOut>>

\* gemini.js call: a plain fetch
PlainFetch ==
  /\ rpc = "fetch"
  /\ caller = "gemini"
  /\ \E response \in HttpResponses :
       /\ rhist' = Fetched(response)
       /\ rpc' = "returned"
       /\ retryOut' = [kind |-> "return", response |-> response]
  /\ UNCHANGED <<ledgerVars, cliVars, agentVars, toolVars, caller, maxRetries, attemptNo,
                 lastResponse, delayMs, callOut>>

\* the Error call throws for a response that is not ok
ApiError(name) == IF name = "claude" THEN <<"Claude API error">> ELSE <<"Gemini API error">>

\* call: if (!response.ok) throw ...; return response.json()
CallFinish ==
  /\ rpc = "returned"
  /\ caller \in Providers
  /\ callOut = NoOutcome
  /\ callOut' = IF ok(retryOut.response)
                  THEN [kind |-> "return", message |-> << >>,
                        status |-> retryOut.response.status]
                  ELSE [kind |-> "throw", message |-> ApiError(caller),
                        status |-> retryOut.response.status]
  /\ UNCHANGED <<ledgerVars, cliVars, agentVars, toolVars, caller, rpc, maxRetries, attemptNo,
                 lastResponse, delayMs, retryOut, rhist>>

\* the maxRetries a caller passes ({ maxRetries = MAX_RETRIES } when it passes none)
MaxRetriesInputs == 0..MaxRetry \cup {FETCH_MAX_RETRIES}

UnitIdle ==
  /\ unitCall = NoCall
  /\ unitBefore = InitialFiles
  /\ unitResult = NoOutcome
  /\ RetryIdle

\* the characters file contents and edit strings are made of
Alphabet == {"a", "$", "&"}

Texts(n) == UNION {[1..k -> Alphabet] : k \in 0..n}

\* what a.txt may hold when the call arrives
Contents == Texts(MaxLen)

\* old_string and new_string of an edit_file call
OldStrings == Texts(MaxLen - 1)
NewStrings == Texts(2)

UnitCalls ==
  {[name |-> "edit_file", input |-> [path |-> q, old_string |-> o, new_string |-> n]] :
     q \in {"a.txt", "new.txt"}, o \in OldStrings, n \in NewStrings}
  \cup {[name |-> t, input |-> [path |-> q]] :
          t \in {"read_file", "delete_file", "get_file_info"}, q \in Paths}
  \cup {[name |-> "write_file", input |-> [path |-> q, content |-> <<"a">>]] : q \in Paths}
  \cup {ReadNoPath, RunTests, RenameA, SayDone}

\* executeTool(projectName, toolName, toolInput), called once
ToolCall ==
  /\ unitCall = NoCall
  /\ \E call \in UnitCalls :
       LET r == executeTool(files, call.name, call.input) IN
         /\ unitCall' = call
         /\ unitBefore' = files
         /\ unitResult' = [threw |-> r.threw, message |-> r.message, payload |-> r.payload]
         /\ files' = r.files
  /\ UNCHANGED <<ledgerVars, cliVars, env, apc, turns, messages, formattedRequest, parsed, ti, toolResults,
                 outcome, now, hist, execLog, retryVars>>

vars == <<requests, statusTrace, requestLog, logFiles, sameMs, commits, head, apiResult, pc, cmd, req, result, commitHash,
         remote, procs,
         env, apc, turns, messages, formattedRequest, parsed, ti, toolResults, outcome, files,
         now,
         hist, execLog, unitVars>>

Init ==
  /\ requests = << >>
  /\ statusTrace = << >>
  /\ requestLog = << >>
  /\ logFiles = requestLog
  /\ sameMs = 0
  /\ commits = << >>
  /\ head = [requests |-> requests, log |-> requestLog]
  /\ apiResult = NoResult
  /\ pc = "idle"
  /\ cmd = NoCmd
  /\ req = NoRequest
  /\ result = NoOutcome
  /\ commitHash = Absent
  /\ remote = NoRemote
  /\ procs = NoProcs
  /\ env = [LLM_PROVIDER |-> "", hasKey |-> TRUE]
  /\ apc = "off"
  /\ turns = 0
  /\ messages = << >>
  /\ formattedRequest = NoRequestBody
  /\ parsed = NoParsed
  /\ ti = 1
  /\ toolResults = << >>
  /\ outcome = NoOutcome
  /\ files = InitialFiles
  /\ now = 0
  /\ hist = NoHist
  /\ execLog = << >>
  /\ UnitIdle

Next ==
  \/ ApiCreate
  \/ ApiTransition
  \/ ApiRecordAttempt
  \/ ApiMarkApplied
  \/ ApiAmend
  \/ ApiCommit

Spec == Init /\ [][Next]_vars

\* the request API called directly, with the clock read for a log file's name
\* up to MaxSameMs times in the millisecond of the write before
InitLog ==
  /\ requests = << >>
  /\ statusTrace = << >>
  /\ requestLog = << >>
  /\ logFiles = requestLog
  /\ sameMs = MaxSameMs
  /\ commits = << >>
  /\ head = [requests |-> requests, log |-> requestLog]
  /\ apiResult = NoResult
  /\ pc = "idle"
  /\ cmd = NoCmd
  /\ req = NoRequest
  /\ result = NoOutcome
  /\ commitHash = Absent
  /\ remote = NoRemote
  /\ procs = NoProcs
  /\ env = [LLM_PROVIDER |-> "", hasKey |-> TRUE]
  /\ apc = "off"
  /\ turns = 0
  /\ messages = << >>
  /\ formattedRequest = NoRequestBody
  /\ parsed = NoParsed
  /\ ti = 1
  /\ toolResults = << >>
  /\ outcome = NoOutcome
  /\ files = InitialFiles
  /\ now = 0
  /\ hist = NoHist
  /\ execLog = << >>
  /\ UnitIdle

SpecLog == InitLog /\ [][Next]_vars

\* createRequest over a ledger that already holds any set of requests
\* (removed ones leave gaps)
InitCreate ==
  /\ \E S \in SUBSET (1..MaxIds) :
       /\ requests = [i \in S |-> newRequest(i, "Add input validation to /login")]
       /\ statusTrace = [i \in S |-> <<"ingested">>]
       /\ requestLog = [i \in S |-> <<[event |-> "created"]>>]
       /\ logFiles = requestLog
       /\ sameMs = 0
  /\ commits = << >>
  /\ head = [requests |-> requests, log |-> requestLog]
  /\ apiResult = NoResult
  /\ pc = "idle"
  /\ cmd = NoCmd
  /\ req = NoRequest
  /\ result = NoOutcome
  /\ commitHash = Absent
  /\ remote = NoRemote
  /\ procs = NoProcs
  /\ env = [LLM_PROVIDER |-> "", hasKey |-> TRUE]
  /\ apc = "off"
  /\ turns = 0
  /\ messages = << >>
  /\ formattedRequest = NoRequestBody
  /\ parsed = NoParsed
  /\ ti = 1
  /\ toolResults = << >>
  /\ outcome = NoOutcome
  /\ files = InitialFiles
  /\ now = 0
  /\ hist = NoHist
  /\ execLog = << >>
  /\ UnitIdle

CreateNext ==
  /\ Len(commits) < MaxIds
  /\ \E d \in Descriptions : createRequest(d)
  /\ UNCHANGED <<cliVars, agentVars, unitVars>>

NextCreate == CreateNext

SpecCreate == InitCreate /\ [][NextCreate]_vars

\* parseResponse on its own: one response of either backend, with any stop
\* reason and up to MaxCalls tool calls
CallSeqs == UNION {[1..n -> {ReadA, WriteNew, SayDone}] : n \in 0..MaxCalls}

ParseInputs(name) ==
  LET turnsOf == {Turn(text, calls, stop) :
                    text \in {NoText, <<"All done">>}, calls \in CallSeqs,
                    stop \in {"end", "tool_use", "max_tokens"}}
  IN IF name = "claude" THEN {ClaudeResponse(t, 1) : t \in turnsOf}
     ELSE {GeminiResponse(t) : t \in turnsOf} \cup {GeminiNoCandidates}

ParseCall ==
  /\ unitCall = NoCall
  /\ \E name \in Providers, clock \in {0, 1} :
       \E apiResponse \in ParseInputs(name) :
         /\ unitCall' = [name |-> "parseResponse", provider |-> name, input |-> apiResponse]
         /\ unitResult' = parseResponse(name, apiResponse, clock)
  /\ UNCHANGED <<ledgerVars, cliVars, agentVars, unitBefore, retryVars>>

NextParse == ParseCall

SpecParse == Init /\ [][NextParse]_vars

\* the submit, retry and amend commands, one at a time
NextCli ==
  \/ cmdSubmit
  \/ cmdRetry
  \/ cmdAmend
  \/ PrepareWorkspace
  \/ PrepareWorkspaceThrows
  \/ AgentSucceeds
  \/ AgentFails
  \/ AgentThrows
  \/ CommitAll
  \/ CommitNothing
  \/ TestsFail
  \/ RecordSuccess
  \/ PushBranch
  \/ PushBranchThrows
  \/ OpenPR
  \/ CreatePRThrows

SpecCli == Init /\ [][NextCli]_vars

\* ------------------------------------------------------------------------
\* The command's process is stopped (killed, or the machine goes down)
\* ------------------------------------------------------------------------
\* the process is gone: nothing of the command is left but the exit status
\* the shell reports for a killed process
Killed == Exit("killed", 0, "-", FALSE, 137) /\ UNCHANGED remote

\* the documents written whose log entry was never written: one for every
\* stop inside a mutation so far
CutShort ==
  LET Count(f, id) == IF id \in DOMAIN f THEN Len(f[id]) ELSE 0 IN
    Max({0} \cup {Count(statusTrace, id) - Count(requestLog, id) : id \in DOMAIN statusTrace})

\* a stop that falls inside a mutation, after writeRequest and before
\* writeRequestLog and commitLedger (up to MaxStops of them in a behaviour;
\* stops between two mutations are not counted)
StopAfterWrite(id, document) ==
  /\ CutShort < MaxStops
  /\ writeRequest(id, document)
  /\ UNCHANGED <<requestLog, logFiles, sameMs, commits, head, apiResult>>

SuccessAttempt ==
  [status |-> "succeeded", commit |-> commitHash, reason |-> Absent,
   summary |-> IF result.summary = << >> THEN Absent ELSE result.summary]

\* a stop at any await of executeRequest: between two steps, or inside the
\* recordAttempt or markApplied call the run has reached
ProcessStop ==
  /\ UNCHANGED <<agentVars, unitVars, procs>>
  /\ pc # "idle"
  /\ Killed
  /\ LET request == readRequest(req.id)
         Failing(reason) == StopAfterWrite(req.id, attemptDocument(request, FailedAttempt(Absent, reason)))
     IN \/ UNCHANGED ledgerVars
        \/ pc = "prepare" /\ Failing("git fetch failed (exit 128)")
        \/ pc = "agent" /\ \E o \in AgentFailures : Failing(o.error)
        \/ pc = "agent" /\ \E m \in AgentErrors : Failing(m)
        \/ pc = "commit" /\ Failing("Agent reported success but no files were changed")
        \/ pc = "test" /\ \E out \in TestOutputs :
             StopAfterWrite(req.id, attemptDocument(request,
                              FailedAttempt(commitHash, testsFailedReason(out))))
        \/ pc = "test" /\ StopAfterWrite(req.id, attemptDocument(request, SuccessAttempt))
        \/ pc = "push" /\ Failing("git push failed (exit 1)")
        \/ pc = "pr" /\ \E u \in (IF isAmend /\ req.pr_url # Absent THEN {req.pr_url} ELSE PrUrls) :
             StopAfterWrite(req.id, [request EXCEPT !.status = "applied", !.pr_url = u])
        \/ pc = "pr" /\ ~(isAmend /\ req.pr_url # Absent) /\ Failing("GitHub API error (422)")

\* a stop inside createRequest or amendRequest, before executeRequest starts
EarlyStop ==
  /\ UNCHANGED <<agentVars, unitVars, procs>>
  /\ pc = "idle"
  /\ remote' = NoRemote
  /\ \/ /\ nextRequestId \in RequestIds
        /\ \E d \in Descriptions :
             /\ StopAfterWrite(nextRequestId, newRequest(nextRequestId, d))
             /\ Exit("killed", 0, "-", FALSE, 137)
     \/ \E id \in RequestIds, d \in Descriptions :
          LET request == readRequest(id) IN
            /\ request # NoRequest
            /\ canAmend(request)
            /\ Attempts(id) < MaxRuns
            /\ Specs(id) < MaxSpecs
            /\ StopAfterWrite(id, [request EXCEPT
                 !.spec = amendedSpec(request.spec, d), !.status = "executing"])
            /\ Exit("killed", 0, "-", FALSE, 137)

NextStop ==
  \/ NextCli
  \/ ProcessStop
  \/ EarlyStop

SpecStop == Init /\ [][NextStop]_vars

\* ------------------------------------------------------------------------
\* Commands started as separate processes over one ledger and one project
\* workspace; a process yields at every await of its command
\* ------------------------------------------------------------------------
ParDescriptions == {"Add input validation to /login", "Also validate /signup"}

At(p, where) == procs[p].pc = where

Goto(p, where) == procs' = [procs EXCEPT ![p].pc = where]

\* cmdRetry in process p (autonomy execute_local): the request is read,
\* canRetry decides, and executeRequest starts
ParRetry(p) ==
  /\ At(p, "idle")
  /\ \E id \in ApiIds, force \in BOOLEAN :
       LET request == readRequest(id)
           refused == request = NoRequest \/ ~canRetry(request, force)
       IN /\ Attempts(id) < MaxRuns
          /\ procs' = [procs EXCEPT ![p] =
               [pc |-> IF refused THEN "idle" ELSE "prepare", name |-> "retry", id |-> id,
                description |-> "-", exit |-> IF refused THEN 1 ELSE -1]]
  /\ UNCHANGED <<ledgerVars, pc, cmd, req, result, commitHash, remote, agentVars, unitVars>>

\* cmdSubmit in process p, createRequest: const id = await nextRequestId()
ParNextId(p) ==
  /\ At(p, "idle")
  /\ nextRequestId \in RequestIds
  /\ \E d \in ParDescriptions :
       procs' = [procs EXCEPT ![p] =
         [pc |-> "write", name |-> "submit", id |-> nextRequestId, description |-> d,
          exit |-> -1]]
  /\ UNCHANGED <<ledgerVars, pc, cmd, req, result, commitHash, remote, agentVars, unitVars>>

\* createRequest: await writeRequest(id, request)
ParWriteRequest(p) ==
  /\ At(p, "write")
  /\ writeRequest(procs[p].id, newRequest(procs[p].id, procs[p].description))
  /\ Goto(p, "log")
  /\ UNCHANGED <<requestLog, logFiles, sameMs, commits, head, apiResult>>
  /\ UNCHANGED <<pc, cmd, req, result, commitHash, remote, agentVars, unitVars>>

\* createRequest: await writeRequestLog(id, { event: "created", ... })
ParWriteLog(p) ==
  /\ At(p, "log")
  /\ writeRequestLog(procs[p].id, [event |-> "created"])
  /\ Goto(p, "commit")
  /\ UNCHANGED <<requests, statusTrace, commits, head, apiResult>>
  /\ UNCHANGED <<pc, cmd, req, result, commitHash, remote, agentVars, unitVars>>

\* createRequest: await commitLedger(...); the request is returned and
\* executeRequest starts
ParCommit(p) ==
  /\ At(p, "commit")
  /\ UNCHANGED <<requests, statusTrace, requestLog, logFiles, sameMs>>
  /\ commitLedger([op |-> "Ingest request", id |-> procs[p].id])
  /\ Ok("createRequest", procs[p].id, "ingested", "-")
  /\ Goto(p, "prepare")
  /\ UNCHANGED <<pc, cmd, req, result, commitHash, remote, agentVars, unitVars>>

\* executeRequest, step 1: the workspace is prepared and runAgent is called
ParPrepare(p) ==
  /\ At(p, "prepare")
  /\ Goto(p, "agent")
  /\ UNCHANGED <<ledgerVars, pc, cmd, req, result, commitHash, remote, agentVars, unitVars>>

\* executeRequest, steps 2 to 5: the agent loop has ended, and the attempt
\* is recorded
ParAgentEnds(p) ==
  /\ At(p, "agent")
  /\ Attempts(procs[p].id) < MaxAttempts
  /\ \E a \in AttemptInputs : recordAttempt(procs[p].id, a)
  /\ procs' = [procs EXCEPT ![p].pc = "idle", ![p].exit = 0]
  /\ UNCHANGED <<pc, cmd, req, result, commitHash, remote, agentVars, unitVars>>

NextPar ==
  \E p \in Procs :
    \/ ParRetry(p)
    \/ ParNextId(p)
    \/ ParWriteRequest(p)
    \/ ParWriteLog(p)
    \/ ParCommit(p)
    \/ ParPrepare(p)
    \/ ParAgentEnds(p)

SpecPar == Init /\ [][NextPar]_vars

\* runAgent on its own: executeRequest has prepared the workspace and calls it
\* for a fresh or an amended request
AmendedRequest ==
  [newRequest(1, "Add input validation to /login") EXCEPT
     !.spec = Append(@, [version |-> 2, description |-> "Also validate /signup"]),
     !.attempts = << [id |-> 1, spec_version |-> 1, status |-> "succeeded",
                      commit |-> "abc1234", reason |-> Absent,
                      summary |-> <<"Validated", "input">>] >>,
     !.status = "executing"]

AgentRequests == {newRequest(1, "Add input validation to /login"), AmendedRequest}

EnvChoices ==
  { [LLM_PROVIDER |-> "", hasKey |-> TRUE],
    [LLM_PROVIDER |-> "gemini", hasKey |-> TRUE],
    [LLM_PROVIDER |-> "gemini", hasKey |-> FALSE],
    [LLM_PROVIDER |-> "openai", hasKey |-> TRUE] }

InitAgent ==
  /\ req \in AgentRequests
  /\ requests = [i \in RequestIds |-> req]
  /\ statusTrace = [i \in RequestIds |-> <<req.status>>]
  /\ requestLog = << >>
  /\ logFiles = requestLog
  /\ sameMs = 0
  /\ commits = << >>
  /\ head = [requests |-> requests, log |-> requestLog]
  /\ apiResult = NoResult
  /\ pc = "agent"
  /\ cmd = [name |-> "submit", id |-> 1, autonomy |-> "execute_local", force |-> FALSE,
            exit |-> -1]
  /\ result = NoOutcome
  /\ commitHash = Absent
  /\ remote = NoRemote
  /\ procs = NoProcs
  /\ env \in EnvChoices
  /\ apc = "start"
  /\ turns = 0
  /\ messages = << >>
  /\ formattedRequest = NoRequestBody
  /\ parsed = NoParsed
  /\ ti = 1
  /\ toolResults = << >>
  /\ outcome = NoOutcome
  /\ files = InitialFiles
  /\ now = 0
  /\ hist = NoHist
  /\ execLog = << >>
  /\ UnitIdle

\* a workspace whose a.txt holds any of the contents
InitTool ==
  /\ requests = << >>
  /\ statusTrace = << >>
  /\ requestLog = << >>
  /\ logFiles = requestLog
  /\ sameMs = 0
  /\ commits = << >>
  /\ head = [requests |-> requests, log |-> requestLog]
  /\ apiResult = NoResult
  /\ pc = "idle"
  /\ cmd = NoCmd
  /\ req = NoRequest
  /\ result = NoOutcome
  /\ commitHash = Absent
  /\ remote = NoRemote
  /\ procs = NoProcs
  /\ env = [LLM_PROVIDER |-> "", hasKey |-> TRUE]
  /\ apc = "off"
  /\ turns = 0
  /\ messages = << >>
  /\ formattedRequest = NoRequestBody
  /\ parsed = NoParsed
  /\ ti = 1
  /\ toolResults = << >>
  /\ outcome = NoOutcome
  /\ \E c \in Contents : files = [InitialFiles EXCEPT ![join(wsPath, "a.txt")] = File(c)]
  /\ now = 0
  /\ hist = NoHist
  /\ execLog = << >>
  /\ unitCall = NoCall
  /\ unitBefore = files
  /\ unitResult = NoOutcome
  /\ RetryIdle

NextTool == ToolCall

\* fetchWithRetry called by a test with its own maxRetries, or by an adapter
InitRetry ==
  /\ requests = << >>
  /\ statusTrace = << >>
  /\ requestLog = << >>
  /\ logFiles = requestLog
  /\ sameMs = 0
  /\ commits = << >>
  /\ head = [requests |-> requests, log |-> requestLog]
  /\ apiResult = NoResult
  /\ pc = "idle"
  /\ cmd = NoCmd
  /\ req = NoRequest
  /\ result = NoOutcome
  /\ commitHash = Absent
  /\ remote = NoRemote
  /\ procs = NoProcs
  /\ env = [LLM_PROVIDER |-> "", hasKey |-> TRUE]
  /\ apc = "off"
  /\ turns = 0
  /\ messages = << >>
  /\ formattedRequest = NoRequestBody
  /\ parsed = NoParsed
  /\ ti = 1
  /\ toolResults = << >>
  /\ outcome = NoOutcome
  /\ files = InitialFiles
  /\ now = 0
  /\ hist = NoHist
  /\ execLog = << >>
  /\ unitCall = NoCall
  /\ unitBefore = InitialFiles
  /\ unitResult = NoOutcome
  /\ caller \in {"direct"} \cup Providers
  /\ maxRetries \in (IF caller = "direct" THEN MaxRetriesInputs ELSE {FETCH_MAX_RETRIES})
  /\ rpc = "fetch"
  /\ attemptNo = 0
  /\ lastResponse = NoResponse
  /\ delayMs = 0
  /\ retryOut = NoOutcome
  /\ callOut = NoOutcome
  /\ rhist = NoRhist

NextRetry ==
  \/ Fetch
  \/ FetchThrows
  \/ Wake
  \/ PlainFetch
  \/ CallFinish

SpecRetry == InitRetry /\ [][NextRetry]_vars

SpecTool == InitTool /\ [][NextTool]_vars

NextAgent ==
  \/ StartAgent
  \/ LoopHead
  \/ ProviderCallThrows
  \/ ProviderResponds
  \/ RunToolCall

SpecAgent == InitAgent /\ [][NextAgent]_vars

\* every provider call and every tool execution comes back
SpecAgentFair == SpecAgent /\ WF_vars(NextAgent)

\* ========================================================================
\* Claims
\* ========================================================================

\* the transition table as section 4.3 prints it
TableTargets(s) ==
  CASE s = "ingested"    -> {"executing"}
    [] s = "executing"   -> {"succeeded", "failed"}
    [] s = "succeeded"   -> {"applied", "executing"}
    [] s = "failed"      -> {"retrying", "needs_human"}
    [] s = "retrying"    -> {"executing"}
    [] s = "needs_human" -> {"executing"}
    [] s = "applied"     -> {"executing"}
    [] OTHER             -> {}

\* C1: a call transitionRequest(id, T) on a request in status S persists
\* status T and succeeds when T is among the table's targets of S, and
\* otherwise fails with an invalid-transition error and leaves the status S.
C1_TransitionIffInTable ==
  [][ \A id \in DOMAIN requests :
        ( /\ apiResult' # apiResult
          /\ apiResult'.op = "transitionRequest"
          /\ apiResult'.id = id )
        => LET S == requests[id].status
               T == apiResult'.target
           IN IF T \in TableTargets(S)
                THEN /\ apiResult'.ok
                     /\ requests'[id].status = T
                ELSE /\ ~apiResult'.ok
                     /\ apiResult'.error = "Invalid transition"
                     /\ requests'[id] = requests[id] ]_vars

\* C1 witness: a transition out of the status reached last (retrying) was
\* accepted, after one into it
C1_Witness ==
  /\ apiResult.op = "transitionRequest"
  /\ apiResult.ok
  /\ apiResult.from = "retrying"
  /\ apiResult.target = "executing"
  /\ requests[apiResult.id].status = "executing"

\* C2: every change of a request's persisted status made while the submit,
\* retry and amend commands run leads to a status the table allows after the
\* status it replaces.
C2_StatusChangesFollowTable ==
  [][ \A id \in DOMAIN requests :
        requests'[id].status # requests[id].status
        => requests'[id].status \in TableTargets(requests[id].status) ]_vars

\* C3: a submit with autonomy execute_local whose agent succeeds, whose
\* changes are committed and whose tests pass leaves the persisted statuses
\* ingested, executing, succeeded, one attempt with a commit reference and
\* no pr_url.
C3_SubmitLocalTrace ==
  ( /\ pc = "idle"
    /\ cmd.name = "submit"
    /\ cmd.autonomy = "execute_local"
    /\ cmd.exit = 0
    /\ apiResult.op = "recordAttempt"
    /\ apiResult.target = "succeeded" )
  => LET r == requests[cmd.id] IN
       /\ statusTrace[cmd.id] = <<"ingested", "executing", "succeeded">>
       /\ Len(r.attempts) = 1
       /\ r.attempts[1].commit # Absent
       /\ r.pr_url = Absent

\* the attempts of a request that failed
FailedOf(r) == SelectSeq(r.attempts, LAMBDA a : a.status = "failed")

\* C4: after recordAttempt with outcome failed the status is needs_human
\* when the request has two or more failed attempts (all counted, the new
\* one included) and failed when it has fewer; after recordAttempt with
\* outcome succeeded the status is succeeded.
C4_AttemptDecidesStatus ==
  \A id \in DOMAIN requests :
    ( /\ apiResult.op = "recordAttempt"
      /\ apiResult.ok
      /\ apiResult.id = id )
    => LET r == requests[id] IN
         /\ apiResult.target = "failed" /\ Len(FailedOf(r)) >= 2
              => r.status = "needs_human"
         /\ apiResult.target = "failed" /\ Len(FailedOf(r)) < 2
              => r.status = "failed"
         /\ apiResult.target = "succeeded" => r.status = "succeeded"

\* C4 witness: the second failure follows a success and an amendment, and
\* escalates
C4_Witness ==
  \E id \in DOMAIN requests :
    LET r == requests[id] IN
      /\ apiResult.op = "recordAttempt"
      /\ apiResult.id = id
      /\ Len(r.attempts) = 3
      /\ r.attempts[1].status = "failed"
      /\ r.attempts[2].status = "succeeded"
      /\ r.attempts[3].status = "failed"
      /\ r.attempts[3].spec_version = 2
      /\ r.status = "needs_human"

\* ------------------------------------------------------------------------
\* The agent loop
\* ------------------------------------------------------------------------
Ended == apc \in {"returned", "thrown"}

ExceededOutcome ==
  /\ apc = "returned"
  /\ ~outcome.success
  /\ outcome.error = <<"Agent exceeded maximum turns (50)">>

\* C5: runAgent makes at most 50 provider calls; when every provider call and
\* tool execution comes back it terminates; and it returns the "exceeded
\* maximum turns" failure exactly when each of 50 responses asked for a tool
\* and no executed tool call was done.
C5_TurnBudget ==
  /\ [](hist.calls <= 50)
  /\ <>Ended
  /\ [](apc = "returned" =>
          (ExceededOutcome <=>
             (hist.responses = 50 /\ hist.withTools = 50 /\ ~hist.doneExecuted)))

C5_Witness == ExceededOutcome /\ hist.calls = 50 /\ hist.withTools = 50

\* the next model turn has just been requested after a turn of tool calls
NextTurnRequested == apc = "calling" /\ turns > 1

\* the history ends with the assistant turn and one message of results, one
\* per call of that turn, in the order of the calls
ResultsAnswerCalls ==
  LET last == messages[Len(messages)]
      calls == parsed.toolCalls
  IN /\ Len(messages) = 2 * turns - 1
     /\ messages[Len(messages) - 1] = [role |-> "assistant", content |-> parsed.raw]
     /\ last.role = "user"
     /\ Len(last.content) = Len(calls)
     /\ Len(toolResults) = Len(calls)
     /\ ti = Len(calls)
     /\ \A k \in 1..Len(calls) :
          /\ last.content[k].type = "tool_result"
          /\ last.content[k].content = toolResults[k].content
          /\ toolResults[k].id = calls[k].id
          /\ toolResults[k].name = calls[k].name

CarriesId(k) ==
  LET b == messages[Len(messages)].content[k]
  IN "tool_use_id" \in DOMAIN b /\ b.tool_use_id = parsed.toolCalls[k].id

CarriesName(k) ==
  LET b == messages[Len(messages)].content[k]
  IN "_name" \in DOMAIN b /\ b._name = parsed.toolCalls[k].name

\* C6 as stated: when model turn k+1 is requested the history ends with one
\* tool-results message holding one result per tool call of response k, in
\* order, each carrying the call's id and name.
C6_ResultsCarryIdAndName ==
  NextTurnRequested =>
    /\ ResultsAnswerCalls
    /\ \A k \in 1..Len(parsed.toolCalls) : CarriesId(k) /\ CarriesName(k)

\* C6: when model turn k+1 is requested the history ends with one tool-results
\* message holding one result per tool call of response k, in order, each
\* carrying the call's id under the Claude adapter and the call's name under
\* the Gemini adapter; no turn is requested while a call is unanswered.
C6_ResultsBeforeNextTurn ==
  NextTurnRequested =>
    /\ ResultsAnswerCalls
    /\ \A k \in 1..Len(parsed.toolCalls) :
         IF provider = "claude"
           THEN CarriesId(k) /\ ~CarriesName(k)
           ELSE CarriesName(k) /\ ~CarriesId(k)

C6_Witness ==
  /\ NextTurnRequested
  /\ Len(parsed.toolCalls) >= 3
  /\ provider = "gemini"

\* the done calls of the current turn
DoneCalls == {k \in 1..Len(parsed.toolCalls) : parsed.toolCalls[k].name = "done"}

FirstDone == CHOOSE k \in DoneCalls : \A j \in DoneCalls : k <= j

\* the calls executed so far in the turn are c1..cm, in order
ExecutedInOrder == \A k \in 1..Len(execLog) : execLog[k] = k

ReturnedWhatDoneCarries ==
  LET ci == parsed.toolCalls[FirstDone].input
  IN /\ apc = "returned"
     /\ outcome.success
     /\ outcome.title = (IF "title" \in DOMAIN ci THEN ci.title ELSE << >>)
     /\ outcome.summary = (IF "summary" \in DOMAIN ci THEN ci.summary ELSE << >>)

TextOnly == parsed # NoParsed /\ (parsed.done \/ Len(parsed.toolCalls) = 0)

EndsOnThatTurn ==
  /\ apc = "returned"
  /\ outcome.success
  /\ execLog = << >>
  /\ hist.responses = turns
  /\ hist.calls = turns

\* C8 as stated: a parsed response that is done or has no tool calls ends the
\* run successfully on that turn, no tool executed, and the outcome summary is
\* the response's free text.
C8_SummaryIsFreeText == TextOnly => (EndsOnThatTurn /\ outcome.summary = parsed.text)

\* C8: a parsed response that is done or has no tool calls ends the run
\* successfully on that turn, no tool executed, and the outcome summary is the
\* response's free text when that is not empty and "Changes implemented" when
\* it is.
C8_TextEndsRun ==
  TextOnly =>
    /\ EndsOnThatTurn
    /\ outcome.summary =
         (IF parsed.text = << >> THEN <<"Changes implemented">> ELSE parsed.text)

C8_Witness ==
  /\ TextOnly
  /\ turns = 1
  /\ apc = "returned"
  /\ outcome.summary = <<"All done">>

\* C9: no error raised inside the agent loop (a failed provider call, a
\* response without candidates, a throwing tool) leaves runAgent as an
\* exception; each ends it with a returned failed outcome.
C9_NoExceptionEscapes == turns >= 1 => apc # "thrown"

ToolNames ==
  {"read_file", "write_file", "list_directory", "search_files", "execute_command",
   "edit_file", "find_files", "delete_file", "get_file_info", "view_diff", "done"}

\* the places where old occurs in text
Occurrences(text, old) ==
  {k \in 1..(Len(text) - Len(old) + 1) : SubSeq(text, k, k + Len(old) - 1) = old}

\* the call meets a missing file, an edit target found zero or several times,
\* or a tool that does not exist
ToolLevelError(call, fs) ==
  \/ call.name \notin ToolNames
  \/ /\ call.name \in {"read_file", "edit_file", "delete_file"}
     /\ "path" \in DOMAIN call.input
     /\ ~fs[join(wsPath, call.input.path)].exists
  \/ /\ call.name = "edit_file"
     /\ "path" \in DOMAIN call.input
     /\ fs[join(wsPath, call.input.path)].exists
     /\ Cardinality(Occurrences(fs[join(wsPath, call.input.path)].text, call.input.old_string)) # 1

HoldsError(toolResult) == "error" \in DOMAIN toolResult.content.json

\* C10 as stated: a turn in which a tool call ended in a tool-level error
\* runs its remaining calls and goes on to the next model turn: the run does
\* not end in that turn.
C10_ToolErrorTurnGoesOn ==
  (Ended /\ Len(execLog) >= 1) =>
    \A k \in 1..Len(toolResults) : ~HoldsError(toolResults[k])

\* C10: a tool call that ends in a tool-level error does not end the run: its
\* error payload is recorded as that call's result, the workspace is left as
\* it was, the next call of the turn is taken up, and after the last call the
\* results message is appended and the loop goes round again, asking for the
\* next model turn unless the 50 turns are used up.
C10_ToolErrorIsResult ==
  [][ /\ (apc = "tools" /\ ToolLevelError(parsed.toolCalls[ti], files)) =>
           /\ Len(toolResults') = Len(toolResults) + 1
           /\ SubSeq(toolResults', 1, Len(toolResults)) = toolResults
           /\ toolResults'[ti].id = parsed.toolCalls[ti].id
           /\ toolResults'[ti].name = parsed.toolCalls[ti].name
           /\ HoldsError(toolResults'[ti])
           /\ files' = files
           /\ IF ti < Len(parsed.toolCalls)
                THEN apc' = "tools" /\ ti' = ti + 1 /\ messages' = messages
                ELSE /\ apc' = "loop"
                     /\ Len(messages') = Len(messages) + 1
                     /\ Len(messages'[Len(messages')].content) = Len(parsed.toolCalls)
      /\ (apc = "loop" /\ turns < 50) => (apc' = "calling" /\ turns' = turns + 1)
    ]_vars

C10_Witness ==
  /\ apc = "calling"
  /\ turns = 2
  /\ Len(toolResults) = 3
  /\ HoldsError(toolResults[1])
  /\ HoldsError(toolResults[2])
  /\ ~HoldsError(toolResults[3])

\* ------------------------------------------------------------------------
\* The tools
\* ------------------------------------------------------------------------
EditPlace == join(wsPath, unitCall.input.path)

\* an edit_file call has been made on a file that exists
Edited == unitCall # NoCall /\ unitCall.name = "edit_file" /\ unitBefore[EditPlace].exists

EditMatches == Occurrences(unitBefore[EditPlace].text, unitCall.input.old_string)

\* the content with the match at position k replaced by the replacement text
ReplacedAt(k) ==
  LET content == unitBefore[EditPlace].text
      old == unitCall.input.old_string
  IN SubSeq(content, 1, k - 1) \o unitCall.input.new_string
       \o SubSeq(content, k + Len(old), Len(content))

EditReports(what) ==
  /\ ~unitResult.threw
  /\ "error" \in DOMAIN unitResult.payload
  /\ unitResult.payload.error[1] = what
  /\ files = unitBefore

EditSucceeds ==
  /\ ~unitResult.threw
  /\ "success" \in DOMAIN unitResult.payload
  /\ unitResult.payload.success

\* C11: edit_file succeeds, leaving the content with its single match
\* replaced by the replacement text, exactly when the target matches at one
\* position; with no match it reports "not found", with several "ambiguous",
\* and in both cases the file is unmodified.
C11_EditExactlyOnce ==
  Edited =>
    /\ Cardinality(EditMatches) = 0 => EditReports("old_string not found in")
    /\ Cardinality(EditMatches) > 1 => EditReports("old_string appears several times in")
    /\ Cardinality(EditMatches) = 1 =>
         /\ EditSucceeds
         /\ files = [unitBefore EXCEPT ![EditPlace] =
                       File(ReplacedAt(CHOOSE k \in EditMatches : TRUE))]

\* the place lies inside the workspace root
Inside(place) ==
  /\ Len(place) > Len(wsPath)
  /\ SubSeq(place, 1, Len(wsPath)) = wsPath

PathTools ==
  {"read_file", "write_file", "edit_file", "delete_file", "list_directory",
   "get_file_info"}

\* C12: whatever path a tool call carries, the place it reads, writes or
\* deletes lies inside the workspace root.
C12_StaysInWorkspace ==
  (unitCall # NoCall /\ unitCall.name \in PathTools /\ ~unitResult.threw) =>
    /\ \A place \in Places : files[place] # unitBefore[place] => Inside(place)
    /\ "content" \in DOMAIN unitResult.payload =>
         \A place \in Places :
           (unitBefore[place].exists /\ ~Inside(place)) =>
              unitResult.payload.content # unitBefore[place].text

\* ------------------------------------------------------------------------
\* The retry transport
\* ------------------------------------------------------------------------
\* fetchWithRetry itself ran (a test's call or the Claude adapter's)
ThroughTransport == caller \in {"direct", "claude"}

\* the statuses the transport treats as transient
Transient(status) == status \in {429, 500, 502, 503, 504, 529}

AllTransient == rhist.fetches >= 1 /\ rhist.retryable = rhist.fetches

ReturnedLast ==
  /\ rpc = "returned"
  /\ retryOut = [kind |-> "return", response |-> rhist.last]

\* C13: when every response is retryable, fetchWithRetry with maxRetries = n
\* makes exactly n+1 fetches and n sleeps, none after the last fetch, and
\* returns the last failing response as it is; with n = 0 one fetch, no sleep.
C13_ExhaustedReturnsLast ==
  (ThroughTransport /\ AllTransient) =>
    /\ rhist.fetches <= maxRetries + 1
    /\ rhist.sleeps <= maxRetries
    /\ rpc # "sleep" => rhist.wakes = rhist.sleeps
    /\ rpc = "returned" =>
         /\ rhist.fetches = maxRetries + 1
         /\ rhist.sleeps = maxRetries
         /\ ReturnedLast
         /\ Transient(retryOut.response.status)

C13_Witness ==
  /\ caller = "direct"
  /\ AllTransient
  /\ maxRetries = 2
  /\ rhist.fetches = 3
  /\ rhist.sleeps = 2
  /\ ReturnedLast

\* C14: when the first k responses (k <= maxRetries) are retryable and
\* response k+1 is successful or not retryable, fetchWithRetry returns
\* response k+1 after exactly k+1 fetches and k sleeps, and every fetch after
\* the first starts only when the sleep before it is over.
C14_ReturnsFirstFinal ==
  ThroughTransport =>
    /\ rpc = "fetch" =>
         (rhist.wakes = rhist.sleeps /\ rhist.fetches = rhist.sleeps
            /\ rhist.retryable = rhist.fetches)
    /\ rpc = "sleep" =>
         (rhist.wakes = rhist.sleeps - 1 /\ rhist.fetches = rhist.sleeps)
    /\ (rpc = "returned" /\ ~Transient(rhist.last.status)) =>
         /\ ReturnedLast
         /\ rhist.retryable <= maxRetries
         /\ rhist.fetches = rhist.retryable + 1
         /\ rhist.sleeps = rhist.retryable
         /\ rhist.wakes = rhist.retryable

C14_Witness ==
  /\ caller = "direct"
  /\ ReturnedLast
  /\ retryOut.response.status = 200
  /\ rhist.retryable = 2
  /\ rhist.fetches = 3
  /\ rhist.sleeps = 2

\* retryable as the status classes name it: 429, any 5xx, the overloaded 529
InRetryableClass(status) == status = 429 \/ status \in 500..599

\* C15: a response is retried exactly when its status is 429, a 5xx or 529;
\* any other status is returned after one fetch, no sleep, as it is.
C15_RetriesStatusClasses ==
  (ThroughTransport /\ maxRetries > 0) =>
    /\ rpc = "sleep" => InRetryableClass(lastResponse.status)
    /\ (rpc = "returned" /\ rhist.fetches = 1) =>
         /\ ~InRetryableClass(rhist.last.status)
         /\ rhist.sleeps = 0
         /\ ReturnedLast

\* the retry-after value read as a number of seconds
Hint == Number(lastResponse.retryAfter)

IsBackoff(k, ms) ==
  \/ ms = 60000 /\ 1000 * 2 ^ k > 60000
  \/ ms <= 60000 /\ 500 * 2 ^ k <= ms /\ ms < 1000 * 2 ^ k

\* C16 as stated: the sleep after attempt k is min(s * 1000, 60000) ms when
\* the response carries a retry-after hint of s seconds, else the jittered
\* backoff capped at 60000 ms; always above 0 and at most 60000 ms.
C16_HintAlwaysObeyed ==
  rpc = "sleep" =>
    /\ IF lastResponse.retryAfter # "" /\ ~Hint.nan
         THEN delayMs = (IF Hint.milli < 60000 THEN Hint.milli ELSE 60000)
         ELSE IsBackoff(attemptNo, delayMs)
    /\ delayMs > 0
    /\ delayMs <= 60000

\* C16: the sleep after attempt k is min(s * 1000, 60000) ms when the
\* response carries a retry-after hint of s > 0 seconds; with no hint, a hint
\* that is not a number or a hint s <= 0 it is 1000 * 2^k * jitter ms, jitter
\* in [0.5, 1.0), capped at 60000 ms; always above 0 and at most 60000 ms.
C16_SleepDelay ==
  rpc = "sleep" =>
    /\ IF lastResponse.retryAfter # "" /\ ~Hint.nan /\ Hint.milli > 0
         THEN delayMs = (IF Hint.milli < 60000 THEN Hint.milli ELSE 60000)
         ELSE IsBackoff(attemptNo, delayMs)
    /\ delayMs > 0
    /\ delayMs <= 60000

C16_Witness ==
  /\ rpc = "sleep"
  /\ attemptNo = 6
  /\ lastResponse.retryAfter = "0"
  /\ delayMs = 60000

\* C17: for both adapters call goes through the retry transport: a transient
\* backend response is retried, and the failure reaches the agent loop only
\* after the retries are used up (6 requests with the default 5 retries).
C17_CallsGoThroughTransport ==
  (caller \in {"claude", "gemini"} /\ callOut # NoOutcome /\ callOut.kind = "throw"
     /\ Transient(callOut.status)) =>
    (rhist.fetches = 6 /\ rhist.sleeps = 5)

\* ------------------------------------------------------------------------
\* The adapters
\* ------------------------------------------------------------------------
\* the assistant turn of response k as the request of turn k+1 carries it
ReplayedTurn ==
  IF provider = "claude"
    THEN formattedRequest.messages[Len(messages) - 1].content
    ELSE formattedRequest.contents[Len(messages) - 1].parts

\* C18: for each adapter the assistant turn that the next request sends back
\* holds exactly the content the backend returned: the same text parts and
\* the same tool or function call parts, in the same order.
C18_ReplayedVerbatim == NextTurnRequested => ReplayedTurn = parsed.raw

\* ------------------------------------------------------------------------
\* Amendments
\* ------------------------------------------------------------------------
\* this step is a call amendRequest(id, ...) on a request of the ledger
AmendCalled(id) ==
  /\ apiResult' # apiResult
  /\ apiResult'.op = "amendRequest"
  /\ apiResult'.id = id

\* C19: amendRequest is accepted only on a succeeded or applied request
\* (canAmend holds for exactly these two statuses); on any other status it
\* fails with a descriptive error and leaves the request document, its spec,
\* its log entries and the ledger's commits as they were.
C19_AmendOnlyWhenFinished ==
  [][ \A id \in DOMAIN requests :
        /\ canAmend(requests[id]) <=> requests[id].status \in {"succeeded", "applied"}
        /\ AmendCalled(id) =>
             IF requests[id].status \in {"succeeded", "applied"}
               THEN apiResult'.ok
               ELSE /\ ~apiResult'.ok
                    /\ apiResult'.error = "cannot be amended"
                    /\ apiResult'.from = requests[id].status
                    /\ requests' = requests
                    /\ statusTrace' = statusTrace
                    /\ requestLog' = requestLog
                    /\ commits' = commits ]_vars

C19_Witness ==
  /\ apiResult.op = "amendRequest"
  /\ ~apiResult.ok
  /\ apiResult.id \in DOMAIN requests
  /\ requests[apiResult.id].status = "needs_human"
  /\ Len(commits) >= 3

\* C20: a successful amendRequest on a request with N spec entries appends
\* one entry with version N+1, sets the status to executing and leaves the N
\* earlier entries, the attempts, the identifier and the branch as they were;
\* reading the request again yields these N+1 entries.
C20_AmendAppendsSpec ==
  [][ \A id \in DOMAIN requests :
        (AmendCalled(id) /\ apiResult'.ok) =>
          LET before == requests[id]
              after == readRequest(id)'
              N == Len(before.spec)
          IN /\ Len(after.spec) = N + 1
             /\ SubSeq(after.spec, 1, N) = before.spec
             /\ after.spec[N + 1].version = N + 1
             /\ after.spec[N + 1].description \in Descriptions
             /\ after.status = "executing"
             /\ after.attempts = before.attempts
             /\ after.id = before.id
             /\ after.branch = before.branch
             /\ after.branch = [app |-> "motiv", id |-> id] ]_vars

C20_Witness ==
  /\ apiResult.op = "amendRequest"
  /\ apiResult.ok
  /\ apiResult.from = "applied"
  /\ Len(requests[apiResult.id].spec) = 2
  /\ requests[apiResult.id].spec[2].version = 2
  /\ requests[apiResult.id].status = "executing"
  /\ Len(requests[apiResult.id].attempts) >= 1

\* ------------------------------------------------------------------------
\* The retry command
\* ------------------------------------------------------------------------
\* this step is the command retry <id> [--force], started from the prompt
RetryCalled(id, force) ==
  /\ pc = "idle"
  /\ cmd' # cmd
  /\ cmd'.name = "retry"
  /\ cmd'.id = id
  /\ cmd'.force = force

\* the statuses a retry is meant to be allowed from
Retryable(status, force) ==
  IF force THEN status # "executing" ELSE status \in {"failed", "needs_human"}

\* C21: canRetry without force holds exactly for the statuses failed and
\* needs_human, with force exactly for every status but executing; when
\* canRetry is false the retry command rejects the request (exit code 1, no
\* execution started) and changes nothing in the ledger.
C21_RetryOnlyWhenAllowed ==
  [][ \A id \in DOMAIN requests, force \in BOOLEAN :
        /\ canRetry(requests[id], force) <=> Retryable(requests[id].status, force)
        /\ (RetryCalled(id, force) /\ ~Retryable(requests[id].status, force)) =>
             /\ cmd'.exit = 1
             /\ pc' = "idle"
             /\ requests' = requests
             /\ statusTrace' = statusTrace
             /\ requestLog' = requestLog
             /\ commits' = commits ]_vars

\* C21 witness: a forced retry of an executing request has been rejected
C21_Witness ==
  /\ pc = "idle"
  /\ cmd.name = "retry"
  /\ cmd.force
  /\ cmd.exit = 1
  /\ cmd.id \in DOMAIN requests
  /\ requests[cmd.id].status = "executing"

\* ------------------------------------------------------------------------
\* executeRequest: how a run ends
\* ------------------------------------------------------------------------
\* this step is the last of a run of executeRequest
RunEnds == pc # "idle" /\ pc' = "idle"

\* the run's last ledger call recorded the successful attempt or the pull request
LastOf(seq) == seq[Len(seq)]

EndsInSuccess ==
  /\ Len(requestLog'[req.id]) = Len(requestLog[req.id]) + 1
  /\ \/ /\ LastOf(requestLog'[req.id]).event = "attempt"
        /\ LastOf(requestLog'[req.id]).status = "succeeded"
     \/ LastOf(requestLog'[req.id]).event = "applied"

\* request id has one more attempt, a failed one, and one more log entry, attempt_failed
NewFailedAttempt(id) ==
  /\ Len(requests'[id].attempts) = Len(requests[id].attempts) + 1
  /\ LastOf(requests'[id].attempts).status = "failed"
  /\ Len(requestLog'[id]) = Len(requestLog[id]) + 1
  /\ LastOf(requestLog'[id]).event = "attempt"
  /\ LastOf(requestLog'[id]).status = "failed"
  /\ LastOf(requestLog'[id]).attempt_id = Len(requests'[id].attempts)

\* C22: a run of executeRequest that does not end in success (agent failure,
\* turn limit, provider error, workspace or git error, nothing committed,
\* failing tests, push or pull-request error) leaves one new attempt_failed
\* entry for the request and the persisted status failed or needs_human.
C22_FailedRunIsRecorded ==
  [][ (RunEnds /\ ~EndsInSuccess) =>
        /\ NewFailedAttempt(req.id)
        /\ requests'[req.id].status \in {"failed", "needs_human"}
        /\ LastOf(statusTrace'[req.id]) \in {"failed", "needs_human"} ]_vars

\* C22 witness: a push failed after the successful attempt had been recorded
C22_Witness ==
  /\ pc = "idle"
  /\ cmd.name \in {"submit", "retry", "amend"}
  /\ cmd.exit = 0
  /\ apiResult.op = "recordAttempt"
  /\ apiResult.target = "failed"
  /\ LET r == requests[cmd.id] IN
       /\ Len(r.attempts) >= 2
       /\ r.attempts[Len(r.attempts) - 1].status = "succeeded"
       /\ LastOf(r.attempts).commit = Absent
       /\ cmd.autonomy \in {"draft_pr", "full"}
       /\ ~remote.pushed
       /\ r.status = "failed"

\* ------------------------------------------------------------------------
\* executeRequest: failures after the agent's success
\* ------------------------------------------------------------------------
\* this step is the return after commitAll found nothing to commit
NothingCommitted == pc = "commit" /\ pc' = "idle"

\* this step is the return after the test command exited non-zero
TestsFailed ==
  /\ pc = "test"
  /\ pc' = "idle"
  /\ LastOf(requestLog'[req.id]).status = "failed"

\* C23: when the agent reports success but nothing is committed, or the
\* test command exits non-zero, exactly one failed attempt is recorded with
\* the specific reason (for a test failure at most 500 characters long, and
\* with the commit reference), nothing is pushed, no pull request is
\* created and the status does not become succeeded or applied.
C23_PostExecutionFailure ==
  [][ (NothingCommitted \/ TestsFailed) =>
        LET before == requests[req.id]
            after == requests'[req.id]
            last == LastOf(after.attempts)
        IN /\ after.attempts = Append(before.attempts, last)
           /\ last.status = "failed"
           /\ NothingCommitted =>
                /\ last.reason = "Agent reported success but no files were changed"
                /\ last.commit = Absent
           /\ TestsFailed =>
                /\ last.reason.text = "Tests failed"
                /\ last.reason.length <= 500
                /\ last.commit = commitHash
                /\ last.commit # Absent
           /\ ~remote'.pushed
           /\ remote'.pr = "none"
           /\ statusTrace'[req.id] = Append(statusTrace[req.id], after.status)
           /\ after.status \notin {"succeeded", "applied"} ]_vars

\* C23 witness: a test failure whose output was cut to 500 characters, in a
\* run that would have pushed
C23_Witness ==
  /\ pc = "idle"
  /\ cmd.autonomy = "full"
  /\ cmd.exit = 0
  /\ cmd.id \in DOMAIN requests
  /\ requests[cmd.id].attempts # << >>
  /\ LET last == LastOf(requests[cmd.id].attempts) IN
       /\ last.status = "failed"
       /\ last.commit # Absent
       /\ last.reason.length = 500
       /\ last.reason.shown = "stdout"
  /\ remote = NoRemote

\* the last attempt of the command's request is a test failure
LastIsTestFailure ==
  /\ cmd.id \in DOMAIN requests
  /\ requests[cmd.id].attempts # << >>
  /\ LastOf(requests[cmd.id].attempts).status = "failed"
  /\ LastOf(requests[cmd.id].attempts).commit # Absent

\* C24: after a test failure the agent is run again automatically (failed,
\* retrying, executing), up to 2 retries, before the request is escalated:
\* a command whose last attempt is a test failure returns only once the
\* request is needs_human, and the retries have gone through retrying.
C24_TestFailureIsRetried ==
  (pc = "idle" /\ cmd.exit = 0 /\ LastIsTestFailure) =>
    /\ requests[cmd.id].status = "needs_human"
    /\ \E k \in 1..Len(statusTrace[cmd.id]) : statusTrace[cmd.id][k] = "retrying"

\* ------------------------------------------------------------------------
\* Request identifiers
\* ------------------------------------------------------------------------
\* the requests this step created
Created == DOMAIN requests' \ DOMAIN requests

\* C25: nextRequestId is REQ-0001 when no request exists and otherwise the
\* maximum existing suffix plus 1, never a gap below the maximum; so the
\* identifiers of requests created one after another are pairwise distinct
\* and strictly increasing in creation order.
C25_NextIdIsMaxPlusOne ==
  [][ (apiResult'.op = "createRequest" /\ commits' # commits) =>
        /\ \E new \in Created :
             /\ Created = {new}
             /\ DOMAIN requests = {} => requestIdOf(new) = <<0, 0, 0, 1>>
             /\ DOMAIN requests # {} =>
                  /\ new - 1 \in DOMAIN requests
                  /\ \A i \in DOMAIN requests : i < new
             /\ requests'[new].id = new
             /\ LastOf(commits').id = new
        /\ \A i \in DOMAIN requests : requests'[i] = requests[i]
        /\ \A j, k \in 1..Len(commits') : j < k => commits'[j].id < commits'[k].id ]_vars

\* C25 witness: with the suffixes 1, 2 and 4 in the ledger, two requests
\* have been created
C25_Witness ==
  /\ DOMAIN requests = {1, 2, 4, 5, 6}
  /\ Len(commits) = 2
  /\ commits[1].id = 5
  /\ commits[2].id = 6

\* ------------------------------------------------------------------------
\* The ledger's commits
\* ------------------------------------------------------------------------
Mutations ==
  {"createRequest", "transitionRequest", "recordAttempt", "markApplied", "amendRequest"}

\* this step is a completed mutation of request id
Mutated(id) ==
  /\ apiResult'.op \in Mutations
  /\ apiResult'.ok
  /\ apiResult'.id = id
  /\ id \in DOMAIN statusTrace'
  /\ statusTrace' # statusTrace

\* the entries written for request id, none before its creation
LogOf(log, id) == IF id \in DOMAIN log THEN log[id] ELSE << >>

\* C26: a completed mutation writes the request document and one log
\* entry, and then makes exactly one commit, which holds both writes: the
\* ledger tree is left with nothing uncommitted. commitLedger over an
\* unchanged tree makes no commit and raises no error.
C26_OneCommitPerMutation ==
  [][ /\ \A id \in ApiIds :
           ( Mutated(id) =>
               /\ Len(statusTrace'[id]) = Len(LogOf(statusTrace, id)) + 1
               /\ LogOf(requestLog', id) = Append(LogOf(requestLog, id),
                                                  LastOf(requestLog'[id]))
               /\ commits' = Append(commits, LastOf(commits'))
               /\ LastOf(commits').id = id )
       /\ ( (apiResult' # apiResult /\ apiResult'.op = "commitLedger") =>
               /\ apiResult'.ok
               /\ commits' = commits )
       /\ head' = [requests |-> requests', log |-> requestLog'] ]_vars

\* C26 witness: commitLedger has run over an unchanged tree after three commits
C26_Witness ==
  /\ apiResult.op = "commitLedger"
  /\ apiResult.ok
  /\ Len(commits) = 3
  /\ commits[3].op = "Amend"

\* ------------------------------------------------------------------------
\* Attempts and spec entries are append-only
\* ------------------------------------------------------------------------
\* seq begins with the entries of old, unchanged and in the same order
Extends(seq, old) ==
  /\ Len(seq) >= Len(old)
  /\ SubSeq(seq, 1, Len(old)) = old

\* C27: in every ledger state a request's attempts carry the ids 1..n in
\* order and its spec entries the versions 1..N in order; an attempt's
\* spec_version is the number of spec entries at the time it was recorded;
\* no operation removes, reorders or changes an attempt or a spec entry.
C27_AppendOnly ==
  [][ \A id \in DOMAIN requests' :
        LET after == requests'[id] IN
          /\ \A k \in 1..Len(after.attempts) : after.attempts[k].id = k
          /\ \A v \in 1..Len(after.spec) : after.spec[v].version = v
          /\ id \in DOMAIN requests =>
               LET before == requests[id] IN
                 /\ Extends(after.attempts, before.attempts)
                 /\ Extends(after.spec, before.spec)
                 /\ \A k \in (Len(before.attempts) + 1)..Len(after.attempts) :
                      after.attempts[k].spec_version = Len(before.spec) ]_vars

\* C27 witness: attempts recorded before and after an amendment, and a
\* later call that is not recordAttempt
C27_Witness ==
  /\ 1 \in DOMAIN requests
  /\ Len(requests[1].spec) = 2
  /\ Len(requests[1].attempts) = 2
  /\ requests[1].attempts[1].spec_version = 1
  /\ requests[1].attempts[2].spec_version = 2
  /\ apiResult.op = "markApplied"
  /\ apiResult.ok

\* ------------------------------------------------------------------------
\* Autonomy
\* ------------------------------------------------------------------------
\* this step is a command given with the effective autonomy ingest_only
IngestOnly(name) ==
  /\ pc = "idle"
  /\ cmd' # cmd
  /\ cmd'.name = name
  /\ cmd'.autonomy = "ingest_only"

\* the attempts of request id, none when it does not exist
AttemptsOf(rs, id) == IF id \in DOMAIN rs THEN rs[id].attempts ELSE << >>

\* C28: with autonomy ingest_only, submit creates the request with status
\* ingested and no attempt, and neither submit nor retry nor amend runs the
\* agent loop, touches the workspace or records an attempt.
C28_IngestOnlyNeverExecutes ==
  [][ /\ \A name \in {"submit", "retry", "amend"} :
           ( IngestOnly(name) =>
               /\ pc' = "idle"
               /\ apc' = apc
               /\ files' = files
               /\ remote' = NoRemote
               /\ \A id \in DOMAIN requests' :
                    AttemptsOf(requests', id) = AttemptsOf(requests, id) )
       /\ ( IngestOnly("submit") =>
               /\ cmd'.exit = 0
               /\ cmd'.id \notin DOMAIN requests
               /\ requests'[cmd'.id].status = "ingested"
               /\ requests'[cmd'.id].attempts = << >>
               /\ statusTrace'[cmd'.id] = <<"ingested">> )
       /\ ( cmd'.autonomy = "ingest_only" => pc' = "idle" ) ]_vars

\* C28 witness: an applied request has been amended with ingest_only
C28_Witness ==
  /\ pc = "idle"
  /\ cmd.name = "amend"
  /\ cmd.autonomy = "ingest_only"
  /\ cmd.exit = 0
  /\ requests[cmd.id].status = "executing"
  /\ Len(requests[cmd.id].spec) = 2
  /\ requests[cmd.id].pr_url # Absent

\* C29: in a successful execution the autonomy level fixes the outward
\* actions: the branch is pushed exactly for draft_pr and full; the pull
\* request is opened as a draft for draft_pr and ready for review for full;
\* auto-merge is requested exactly for full; with execute_local nothing is
\* pushed or opened, pr_url is left as it was and the status ends at
\* succeeded.
C29_AutonomyFixesOutwardActions ==
  [][ (RunEnds /\ EndsInSuccess) =>
        /\ remote'.pushed <=> cmd.autonomy \in {"draft_pr", "full"}
        /\ cmd.autonomy = "draft_pr" => remote'.pr = "draft"
        /\ cmd.autonomy = "full" => remote'.pr = "ready"
        /\ remote'.autoMerge <=> cmd.autonomy = "full"
        /\ cmd.autonomy = "execute_local" =>
             /\ remote' = NoRemote
             /\ requests'[req.id].pr_url = requests[req.id].pr_url
             /\ requests'[req.id].status = "succeeded" ]_vars

\* ------------------------------------------------------------------------
\* parseResponse
\* ------------------------------------------------------------------------
\* the tool-call blocks of a response, as name and input, in its order
ToolBlocks(name, apiResponse) ==
  IF name = "claude"
    THEN LET blocks == SelectSeq(apiResponse.content, LAMBDA c : c.type = "tool_use")
         IN [k \in 1..Len(blocks) |-> [name |-> blocks[k].name, input |-> blocks[k].input]]
    ELSE LET blocks == SelectSeq(apiResponse.candidates[1].content.parts,
                                 LAMBDA q : "functionCall" \in DOMAIN q)
         IN [k \in 1..Len(blocks) |->
               [name |-> blocks[k].functionCall.name, input |-> blocks[k].functionCall.args]]

\* the backend signals a natural end of turn
NaturalEnd(name, apiResponse) ==
  IF name = "claude" THEN apiResponse.stop_reason = "end_turn"
  ELSE apiResponse.candidates[1].finishReason = "STOP"

\* C30: for both adapters parseResponse sets done exactly when the backend
\* signals a natural end of turn (end_turn, STOP) and the response asks for
\* no tool call; toolCalls has one entry per tool-call block of the
\* response, in the response's order.
C30_DoneAndToolCalls ==
  (unitCall.name = "parseResponse" /\ ~unitResult.threw) =>
    LET blocks == ToolBlocks(unitCall.provider, unitCall.input) IN
      /\ unitResult.done <=>
           (NaturalEnd(unitCall.provider, unitCall.input) /\ blocks = << >>)
      /\ Len(unitResult.toolCalls) = Len(blocks)
      /\ \A k \in 1..Len(blocks) :
           /\ unitResult.toolCalls[k].name = blocks[k].name
           /\ unitResult.toolCalls[k].input = blocks[k].input

\* C30 witness: a Claude response that ends the turn yet asks for two tools
C30_Witness ==
  /\ unitCall.name = "parseResponse"
  /\ unitCall.provider = "claude"
  /\ unitCall.input.stop_reason = "end_turn"
  /\ ~unitResult.done
  /\ Len(unitResult.toolCalls) = 2
  /\ unitResult.toolCalls[1].name = "write_file"
  /\ unitResult.toolCalls[2].name = "read_file"

\* ------------------------------------------------------------------------
\* Synthesized call identifiers
\* ------------------------------------------------------------------------
\* the identifiers of the tool calls of a parsed response
CallIds(p) == {p.toolCalls[k].id : k \in 1..Len(p.toolCalls)}

\* the backend's response has just been parsed
ResponseParsed == apc = "calling" /\ apc' # "thrown" /\ hist'.responses = hist.responses + 1

\* C31: every tool call parsed from a Gemini response carries a synthesized
\* identifier, the identifiers within one response are pairwise distinct,
\* and they are distinct from the identifiers of the response before it in
\* the same conversation
C31_CallIdsDistinct ==
  [][ResponseParsed /\ provider = "gemini" =>
       /\ \A k \in 1..Len(parsed'.toolCalls) : parsed'.toolCalls[k].id # NoId
       /\ Cardinality(CallIds(parsed')) = Len(parsed'.toolCalls)
       /\ CallIds(parsed') \cap CallIds(parsed) = {}]_vars

\* ------------------------------------------------------------------------
\* Rejected transitions
\* ------------------------------------------------------------------------
\* a transitionRequest call has just been rejected
Rejected == apiResult'.op = "transitionRequest" /\ ~apiResult'.ok

LedgerUntouched ==
  /\ requests' = requests
  /\ statusTrace' = statusTrace
  /\ requestLog' = requestLog
  /\ commits' = commits
  /\ head' = head

\* C32 as stated: a rejected transitionRequest writes nothing, and its
\* error message names the request's current status and the requested
\* target status, for an invalid pair and for an unknown request id alike
C32_RejectedNamesStatusAndTarget ==
  [][Rejected =>
       LET m == transitionError(apiResult') IN
         /\ LedgerUntouched
         /\ "to" \in DOMAIN m /\ m.to = apiResult'.target
         /\ "from" \in DOMAIN m
         /\ apiResult'.id \in DOMAIN requests
         /\ m.from = requests[apiResult'.id].status]_vars

\* C32: a rejected transitionRequest writes nothing (documents, log entries
\* and commit history stay as they were); for a pair outside the table the
\* error message names the current status and the requested target, and for
\* an unknown request id it names the id only
C32_RejectedWritesNothing ==
  [][Rejected =>
       LET m == transitionError(apiResult')
           id == apiResult'.id
       IN /\ LedgerUntouched
          /\ IF id \in DOMAIN requests
               THEN /\ apiResult'.target \notin VALID_TRANSITIONS[requests[id].status]
                    /\ m = [text |-> "Invalid transition", from |-> requests[id].status,
                            to |-> apiResult'.target, id |-> id]
               ELSE m = [text |-> "Request not found", id |-> id]]_vars

\* an invalid pair has been rejected on a request that has a history
C32_Witness ==
  /\ apiResult.op = "transitionRequest"
  /\ ~apiResult.ok
  /\ apiResult.id \in DOMAIN requests
  /\ requests[apiResult.id].status = "succeeded"
  /\ apiResult.target = "failed"
  /\ transitionError(apiResult).from = "succeeded"
  /\ Len(commits) >= 2

\* ------------------------------------------------------------------------
\* Attempts per run
\* ------------------------------------------------------------------------
\* C33: each run of executeRequest appends exactly one attempt: when the
\* run ends, the request has one attempt more than the request the run was
\* started with
C33_OneAttemptPerRun ==
  [][RunEnds =>
       Len(requests'[req.id].attempts) = Len(req.attempts) + 1]_vars

\* ------------------------------------------------------------------------
\* What a transition writes to the log and the commit history
\* ------------------------------------------------------------------------
\* a transitionRequest call on request id has just succeeded
Transitioned(id) ==
  /\ apiResult'.op = "transitionRequest"
  /\ apiResult'.ok
  /\ apiResult'.id = id
  /\ id \in DOMAIN requestLog
  /\ Len(requestLog'[id]) = Len(requestLog[id]) + 1

\* C34: a successful transitionRequest that moves a request from status S
\* to status T writes a status_changed log entry with from = S and to = T,
\* and commits under a label naming the transition as S -> T
C34_LogRecordsFromAndTo ==
  [][\A id \in RequestIds :
       Transitioned(id) =>
         LET S == requests[id].status
             T == requests'[id].status
             entry == LastOf(requestLog'[id])
             label == LastOf(commits')
         IN /\ T = apiResult'.target
            /\ entry.event = "status_changed"
            /\ entry.from = S /\ entry.to = T
            /\ label.op = "status"
            /\ label.from = S /\ label.to = T]_vars

\* ------------------------------------------------------------------------
\* Requests at rest
\* ------------------------------------------------------------------------
\* some command is accepted for the request: retry, retry --force or amend
SomeCommandAccepted(request) ==
  canRetry(request, FALSE) \/ canRetry(request, TRUE) \/ canAmend(request)

\* C35: whenever no command is running, every request is in a status from
\* which retry, retry --force or amend is accepted; none rests in executing
C35_NoRequestStuck ==
  pc = "idle" =>
    \A id \in DOMAIN requests :
      /\ SomeCommandAccepted(requests[id])
      /\ requests[id].status # "executing"

\* ------------------------------------------------------------------------
\* Commands running side by side
\* ------------------------------------------------------------------------
\* C36: two command runs started as separate processes never have their
\* agent loops executing against the project workspace at the same time,
\* and no retry is accepted for a request whose execution is in flight
C36_OneAgentLoopAtATime ==
  \A p \in Procs : \A q \in Procs \ {p} :
    /\ ~(At(p, "agent") /\ At(q, "agent"))
    /\ ~( /\ procs[p].name = "retry" /\ procs[p].pc \in {"prepare", "agent"}
          /\ procs[q].pc \in {"prepare", "agent"}
          /\ procs[p].id = procs[q].id )

\* process p's createRequest has returned
Created_by(p) == procs[p].name = "submit" /\ procs[p].pc \in {"prepare", "agent", "idle"}

\* C37: when two createRequest calls overlap, they still obtain different
\* identifiers, and once both have returned the ledger holds both request
\* documents, neither overwritten by the other
C37_OverlappingCreatesStayUnique ==
  \A p \in Procs : \A q \in Procs \ {p} :
    (Created_by(p) /\ Created_by(q)) =>
       /\ procs[p].id # procs[q].id
       /\ procs[p].id \in DOMAIN requests
       /\ requests[procs[p].id].description = procs[p].description

\* ------------------------------------------------------------------------
\* The log directory
\* ------------------------------------------------------------------------
\* C38: after any sequence of completed mutations of a request its log
\* holds as many entries as there were mutations, and no mutation replaces
\* or changes an entry written earlier, mutations within one millisecond
\* included
C38_LogKeepsEveryEntry ==
  /\ \A id \in DOMAIN requestLog :
       Len(LogDir(logFiles, id)) = Len(requestLog[id])
  /\ [][\A id \in DOMAIN logFiles :
          Extends(LogDir(logFiles', id), logFiles[id])]_vars

\* ------------------------------------------------------------------------
\* Status and attempts agree
\* ------------------------------------------------------------------------
LastAttemptIs(request, status) ==
  /\ Len(request.attempts) > 0
  /\ LastOf(request.attempts).status = status

\* C39: in every request document the commands leave behind, process stops
\* inside a mutation included, status failed or needs_human goes with a
\* last attempt that failed, status succeeded or applied with a last
\* attempt that succeeded, and status applied with a pr_url
C39_StatusAgreesWithAttempts ==
  \A id \in DOMAIN requests :
    LET request == requests[id] IN
      /\ request.status \in {"failed", "needs_human"} => LastAttemptIs(request, "failed")
      /\ request.status \in {"succeeded", "applied"} => LastAttemptIs(request, "succeeded")
      /\ request.status = "applied" => request.pr_url # Absent

\* C39 witness: the process was stopped inside markApplied, after the
\* document was written and before the log entry and the commit
C39_Witness ==
  /\ pc = "idle"
  /\ cmd.exit = 137
  /\ 1 \in DOMAIN requests
  /\ requests[1].status = "applied"
  /\ requests[1].pr_url # Absent
  /\ Len(requests[1].attempts) = 2
  /\ requests[1].attempts[1].status = "failed"
  /\ head.requests # requests

\* ------------------------------------------------------------------------
\* Executing an amended request that has a pull request
\* ------------------------------------------------------------------------
\* a run on an amended request with a pr_url, without --force, ends in success
AmendedRunSucceeds ==
  /\ pc = "pr" /\ pc' = "idle"
  /\ cmd'.exit = 0
  /\ Len(req.spec) > 1
  /\ req.pr_url # Absent
  /\ ~cmd.force
  /\ cmd.autonomy \in {"draft_pr", "full"}
  /\ requests'[req.id].status = "applied"

\* cmdAmend has just amended request id
AmendedBy(id) ==
  /\ pc = "idle"
  /\ cmd'.name = "amend" /\ cmd'.id = id
  /\ id \in DOMAIN requests
  /\ requests'[id] # requests[id]

\* C40: a successful execution of an amended request that has a pr_url
\* (autonomy draft_pr or full, no force) pushes the request's branch, opens
\* no new pull request, and ends with status applied and the pr_url,
\* identifier and branch the request had before the amendment; the ledger
\* holds as many requests as before
C40_AmendReusesPullRequest ==
  [][ /\ AmendedRunSucceeds =>
           LET after == requests'[req.id] IN
             /\ remote'.pushed /\ ~remote'.force
             /\ remote'.branch = req.branch
             /\ remote'.pr = "none" /\ ~remote'.autoMerge
             /\ after.status = "applied"
             /\ after.pr_url = req.pr_url
             /\ after.id = req.id
             /\ after.branch = req.branch
             /\ DOMAIN requests' = DOMAIN requests
      /\ \A id \in RequestIds :
           AmendedBy(id) =>
             /\ requests'[id].pr_url = requests[id].pr_url
             /\ requests'[id].id = requests[id].id
             /\ requests'[id].branch = requests[id].branch
             /\ DOMAIN requests' = DOMAIN requests ]_vars

\* C40 witness: an applied request was amended with autonomy full and the
\* run has ended on the pull request it had
C40_Witness ==
  /\ pc = "idle"
  /\ cmd.name = "amend" /\ cmd.exit = 0 /\ cmd.autonomy = "full"
  /\ remote.pushed /\ remote.pr = "none"
  /\ remote.branch = [app |-> "motiv", id |-> 1]
  /\ requests[1].status = "applied"
  /\ requests[1].pr_url # Absent
  /\ Len(requests[1].spec) = 2
  /\ Len(requests[1].attempts) = 2
  /\ requests[1].attempts[2].spec_version = 2

====
